---- MODULE Spec2Model ----
(***************************************************************************)
(* BookStore backend: the rating aggregator (rateBook), the reader-count   *)
(* aggregator (addToHistory), addBookFromPublic, and the public catalogue  *)
(* pagination (getPublicBooks), as state machines over the document store. *)
(*                                                                         *)
(* Two revisions of the rating aggregator are in the source:               *)
(*   "distinctIdentities"  controllers/publicBookController.js rateBook    *)
(*                         (and the first BookService.rateBook)            *)
(*   "entryCount"          the second BookService.rateBook                 *)
(* A behaviour runs one of them from start to end.                         *)
(***************************************************************************)
EXTENDS Integers, Sequences, FiniteSets, TLC

\* ------------------------------------------------------------------ bounds
MaxOps == 4        \* requests handled in one behaviour
MaxBooks == 2      \* books that can be created
MaxTime == 1       \* latest reading of the clock (Date.now())
MaxPublic == 16    \* public books in the catalogue of the pagination check
MaxStr == 3        \* characters of a genre stored as one delimited string
MaxList == 2       \* elements of a genre stored as a list
MaxCollections == 1  \* collections that can be created
MaxCalls == 2      \* requests handled concurrently in one behaviour

\* ------------------------------------------------------------ input domains
Users == {"u1", "u2"}
NoUser == "nouser"            \* req.user is undefined
NoIp == "noip"                \* req.ip is undefined
Revisions == {"distinctIdentities", "entryCount"}

\* A value of req.body.rating as JSON delivers it.
Num(n) == [kind |-> "number", val |-> n]
Undefined == [kind |-> "undefined", val |-> 0]
Null == [kind |-> "null", val |-> 0]
NonNumeric == [kind |-> "string", val |-> 0]
RatingInputs == {Num(n) : n \in {0, 1, 5, 6}} \cup {Undefined, Null, NonNumeric}

\* Who uploads books with addPersonalBook (books of other owners come from
\* addBookFromPublic).
Uploaders == {"u1"}

\* Who sends a rateBook request: req.user and req.ip. rateBook never reads
\* req.ip when req.user is set, so one IP stands for all of them there.
Requesters ==
  {[user |-> u, ip |-> "ip1"] : u \in Users}
  \cup {[user |-> NoUser, ip |-> i] : i \in {"ip1", NoIp}}

VARIABLES
  revision,     \* which revision of rateBook is deployed
  books,        \* Book collection: _id -> document
  nextBookId,   \* next _id the store hands out
  history,      \* History collection: sequence of rows, in insertion order
  now,          \* Date.now() as the latest request read it
  last,         \* the last request and its response (status, emitted events)
  nops,         \* number of requests handled
  rated,        \* per book: the successful rateBook submissions it received
                \* since it was created without ratings (history variable)
  listing,      \* the last read-only query (its parameters) and the
                \* response to it
  collections,  \* Collection collection: _id -> document
  nextCollectionId,  \* next Collection _id the store hands out
  calls,        \* the requests in flight: each one's position in its
                \* handler and the values its handler holds
  users         \* User collection: _id -> document

vars ==
  <<revision, books, nextBookId, history, now, last, nops, rated, listing,
    collections, nextCollectionId, calls, users>>

\* A user document as registerUser stores it: no favourite book yet.
NewUser == [favorites |-> <<>>]

\* The accounts of the users who send requests.
Registered == [u \in Users |-> NewUser]

\* ---------------------------------------------------------------- helpers
RECURSIVE GCD(_, _)
GCD(a, b) == IF b = 0 THEN a ELSE GCD(b, a % b)

\* A JavaScript number sum / n, kept exact as a fraction in lowest terms.
Quotient(sum, n) ==
  LET g == GCD(sum, n) IN [num |-> sum \div g, den |-> n \div g]

RECURSIVE SumRatings(_)
SumRatings(ratings) ==
  IF ratings = <<>> THEN 0
  ELSE Head(ratings).rating.val + SumRatings(Tail(ratings))

\* JavaScript's abstract relational comparison of the rating with a number:
\* null converts to 0, undefined and a non-numeric string to NaN, and every
\* comparison with NaN is false.
IsNaN(r) == r.kind \in {"undefined", "string"}
ToNumber(r) == IF r.kind = "number" THEN r.val ELSE 0
JsLess(r, n) == ~IsNaN(r) /\ ToNumber(r) < n
JsGreater(r, n) == ~IsNaN(r) /\ ToNumber(r) > n

\* if (rating < 1 || rating > 5) return res.status(400)
RatingRejectedMut(r) == JsLess(r, 1) \/ JsGreater(r, 6)
RatingRejected(r) == JsLess(r, 1) \/ JsGreater(r, 5)

\* ratings: [{ rating: { type: Number, required: true } }]: save() rejects a
\* document holding an entry whose rating is missing or does not cast.
RatingsValidMut(ratings) == TRUE
RatingsValid(ratings) ==
  \A i \in 1..Len(ratings) : ratings[i].rating.kind = "number"

\* A stored genre: one delimited string (documents written before the schema
\* changed to [String]) or a list of strings. A string is a sequence of
\* characters.
GenreString(str) == [kind |-> "string", val |-> str]
GenreList(list) == [kind |-> "list", val |-> list]

\* Book schema defaults of a new document (a request without genre stores
\* the empty list).
NewBook(owner, isPublic) ==
  [owner |-> owner, isPublic |-> isPublic, genre |-> GenreList(<<>>),
   ratings |-> <<>>, version |-> 0,
   averageRating |-> [num |-> 0, den |-> 1], numberOfRatings |-> 0,
   uniqueReadersCount |-> 0]

\* Index of the first element satisfying Test, 0 when there is none
\* (Array.prototype.find / findIndex).
FirstIndex(s, Test(_)) ==
  IF \E i \in 1..Len(s) : Test(s[i])
  THEN CHOOSE i \in 1..Len(s) : Test(s[i]) /\ \A j \in 1..(i - 1) : ~Test(s[j])
  ELSE 0

\* ------------------------------------------------------- rating aggregator
\* A new entry of book.ratings: { rating, user } for an authenticated
\* request, { rating, ratedByIp } otherwise.
NewRating(rating, user, ip) ==
  [user |-> user, ratedByIp |-> IF user # NoUser THEN NoIp ELSE ip,
   rating |-> rating]

\* Revision "distinctIdentities": book.ratings.find(...)
\*   user ? (r) => r.user && r.user.toString() === user._id.toString()
\*        : (r) => r.ratedByIp === ip
AlreadyRatedMut(ratings, user, ip) ==
  IF user # NoUser
  THEN FirstIndex(ratings, LAMBDA r : r.user # NoUser /\ r.user = user)
  ELSE 0
AlreadyRated(ratings, user, ip) ==
  IF user # NoUser
  THEN FirstIndex(ratings, LAMBDA r : r.user # NoUser /\ r.user = user)
  ELSE FirstIndex(ratings, LAMBDA r : r.ratedByIp = ip)

\* Revision "entryCount": book.ratings.findIndex(...)
\*   user ? (r) => r.user && r.user.toString() === user._id.toString()
\*        : (r) => !r.user && r.ratedByIp === ip
RatingIndex(ratings, user, ip) ==
  IF user # NoUser
  THEN FirstIndex(ratings, LAMBDA r : r.user # NoUser /\ r.user = user)
  ELSE FirstIndex(ratings, LAMBDA r : r.user = NoUser /\ r.ratedByIp = ip)

\* if (alreadyRated) alreadyRated.rating = rating; else book.ratings.push(...)
UpdateOrPushMut(ratings, i, rating, user, ip) ==
  Append(ratings, NewRating(rating, user, ip))
UpdateOrPush(ratings, i, rating, user, ip) ==
  IF i # 0
  THEN [ratings EXCEPT ![i].rating = rating]
  ELSE Append(ratings, NewRating(rating, user, ip))

\* Revision "entryCount" also refreshes the stored IP of an anonymous slot:
\*   if (!user) book.ratings[ratingIndex].ratedByIp = ip;
UpdateOrPushWithIp(ratings, i, rating, user, ip) ==
  IF i # 0 /\ user = NoUser
  THEN [ratings EXCEPT ![i].rating = rating, ![i].ratedByIp = ip]
  ELSE UpdateOrPush(ratings, i, rating, user, ip)

\* const uniqueRaters = new Set(); ratings.forEach(r => { if (r.user) add
\* r.user.toString(); else if (r.ratedByIp) add r.ratedByIp })
UniqueRaters(ratings) ==
  {ratings[i].user : i \in {j \in 1..Len(ratings) : ratings[j].user # NoUser}}
  \cup
  {ratings[i].ratedByIp :
     i \in {j \in 1..Len(ratings) :
              ratings[j].user = NoUser /\ ratings[j].ratedByIp # NoIp}}

\* book.averageRating = (sum of item.rating) / book.ratings.length
AverageRatingMut(ratings) == Quotient(SumRatings(ratings), Len(ratings) + 1)
AverageRating(ratings) == Quotient(SumRatings(ratings), Len(ratings))

\* The document's version key (__v, the schema's default): save() increments
\* it when the document's array was pushed to.
PushedVersion(book, rs) ==
  IF Len(rs) > Len(book.ratings) THEN book.version + 1 ELSE book.version

\* The book as rateBook hands it to save(), revision "distinctIdentities".
RateDistinctIdentities(book, rating, user, ip) ==
  LET rs == UpdateOrPush(book.ratings, AlreadyRated(book.ratings, user, ip),
                         rating, user, ip)
  IN [book EXCEPT !.ratings = rs,
                  !.version = PushedVersion(book, rs),
                  !.numberOfRatings = Cardinality(UniqueRaters(rs)),
                  !.averageRating = AverageRating(rs)]

\* The book as rateBook hands it to save(), revision "entryCount".
RateEntryCount(book, rating, user, ip) ==
  LET rs == UpdateOrPushWithIp(book.ratings,
                               RatingIndex(book.ratings, user, ip),
                               rating, user, ip)
  IN [book EXCEPT !.ratings = rs,
                  !.version = PushedVersion(book, rs),
                  !.numberOfRatings = Len(rs),
                  !.averageRating = AverageRating(rs)]

RateMut(rev, book, rating, user, ip) ==
  [RateEntryCount(book, rating, user, ip) EXCEPT !.uniqueReadersCount = 0]
Rate(rev, book, rating, user, ip) ==
  IF rev = "distinctIdentities"
  THEN RateDistinctIdentities(book, rating, user, ip)
  ELSE RateEntryCount(book, rating, user, ip)

\* ----------------------------------------------------------- the store
\* Book.findById(id): a string that is no ObjectId makes the query throw a
\* CastError; an id that names no document resolves to null.
BookIdInputs ==
  {[ok |-> TRUE, id |-> i] : i \in 1..(MaxBooks + 1)}
  \cup {[ok |-> FALSE, id |-> 0]}

Found(store, bookId) == bookId.ok /\ bookId.id \in DOMAIN store

\* .select('... averageRating numberOfRatings uniqueReadersCount ...') of the
\* re-fetched book, the payload of a realtime event.
Snapshot(store, id) ==
  [id |-> id, averageRating |-> store[id].averageRating,
   numberOfRatings |-> store[id].numberOfRatings,
   uniqueReadersCount |-> store[id].uniqueReadersCount]

EventMut(name, store, id) ==
  [name |-> name,
   snapshot |-> [Snapshot(store, id) EXCEPT !.numberOfRatings = 0,
                                            !.uniqueReadersCount = 0]]
Event(name, store, id) == [name |-> name, snapshot |-> Snapshot(store, id)]

\* What the client and the realtime subscribers see of a request.
Response(op, status, bookId, events) ==
  [op |-> op, status |-> status, bookId |-> bookId, events |-> events]

\* The bound on the length of a behaviour: every request is counted.
Counted(status) == nops < MaxOps /\ nops' = nops + 1

\* The record of the successful submissions a book received: kept while they
\* come from pairwise distinct identities (a user id, or the IP of a request
\* without a user), and closed for good by the first submission that repeats
\* an identity or carries none.
Identity(user, ip) == IF user # NoUser THEN user ELSE ip
Submitted(log, rating, user, ip) ==
  IF log.open /\ Identity(user, ip) # NoIp
     /\ \A i \in 1..Len(log.subs) : log.subs[i].who # Identity(user, ip)
  THEN [log EXCEPT !.subs = Append(@, [who |-> Identity(user, ip),
                                       val |-> rating.val])]
  ELSE [log EXCEPT !.open = FALSE, !.subs = <<>>,
                   !.repeated = log.repeated \/ \E i \in 1..Len(log.subs) :
                                  log.subs[i].who = Identity(user, ip)]

\* ------------------------------------------------------------- rateBook
\* The status of a failed rateBook. Revision "distinctIdentities" answers 404
\* itself when findById finds nothing and 500 from its catch. In revision
\* "entryCount" the service throws and the controller maps the message:
\*   if (error.message === 'Book not found') return res.status(404)
\*   res.status(500)
ErrorStatusMut(message) == 500
ErrorStatus(message) == IF message = "Book not found" THEN 404 ELSE 500

\* The whole handler: range check, findById, aggregate, save, re-fetch, emit.
\* Result: the status, the store after the request and the events emitted.
RateBookResult(rev, store, bookId, rating, user, ip) ==
  IF RatingRejected(rating)
  THEN [status |-> 400, store |-> store, events |-> <<>>]
  ELSE IF ~bookId.ok
  THEN [status |-> IF rev = "entryCount" THEN ErrorStatus("CastError") ELSE 500,
        store |-> store, events |-> <<>>]
  ELSE IF ~Found(store, bookId)
  THEN [status |-> IF rev = "entryCount" THEN ErrorStatus("Book not found")
                   ELSE 404,
        store |-> store, events |-> <<>>]
  ELSE LET saved == Rate(rev, store[bookId.id], rating, user, ip)
           after == [store EXCEPT ![bookId.id] = saved]
       IN IF ~RatingsValid(saved.ratings)
          THEN [status |-> IF rev = "entryCount"
                           THEN ErrorStatus("ValidationError") ELSE 500,
                store |-> store, events |-> <<>>]
          ELSE [status |-> 200, store |-> after,
                events |-> <<Event("rating_updated", after, bookId.id)>>]

RateBook(bookId, rating, user, ip) ==
  /\ LET res == RateBookResult(revision, books, bookId, rating, user, ip)
     IN /\ Counted(res.status)
        /\ books' = res.store
        /\ last' = Response("rateBook", res.status, bookId, res.events)
        /\ rated' = IF res.status = 200
                    THEN [rated EXCEPT ![bookId.id] =
                            Submitted(@, rating, user, ip)]
                    ELSE rated
  /\ UNCHANGED <<revision, nextBookId, history, now, listing,
                 collections, nextCollectionId, calls, users>>

\* --------------------------------------------------------- addToHistory
\* History.findOne({ user, book }): the first matching row, 0 when none.
ExistingEntry(rows, user, id) ==
  FirstIndex(rows, LAMBDA h : h.user = user /\ h.book = id)

\* lastReadAt of a History row created without one (the schema default).
DefaultLastReadAt(t) == t

\* if (existingEntry) { existingEntry.lastReadAt = Date.now(); save }
\* else { new History({ user, book }).save() }
TouchOrInsertMut(rows, user, id, t) ==
  Append(rows, [user |-> user, book |-> id,
                lastReadAt |-> DefaultLastReadAt(t)])
TouchOrInsert(rows, user, id, t) ==
  LET i == ExistingEntry(rows, user, id)
  IN IF i # 0
     THEN [rows EXCEPT ![i].lastReadAt = t]
     ELSE Append(rows, [user |-> user, book |-> id,
                        lastReadAt |-> DefaultLastReadAt(t)])

\* History.distinct('user', { book: bookId })
DistinctReadersMut(rows, id) ==
  {rows[i].user : i \in 1..Len(rows)}
DistinctReaders(rows, id) ==
  {rows[i].user : i \in {j \in 1..Len(rows) : rows[j].book = id}}

\* The whole handler. A malformed id makes findById throw, and this handler's
\* catch answers 400.
AddToHistoryResult(store, rows, bookId, user, t) ==
  IF ~bookId.ok
  THEN [status |-> 400, store |-> store, rows |-> rows, events |-> <<>>]
  ELSE IF ~Found(store, bookId)
  THEN [status |-> 404, store |-> store, rows |-> rows, events |-> <<>>]
  ELSE LET rows2 == TouchOrInsert(rows, user, bookId.id, t)
           after == [store EXCEPT ![bookId.id].uniqueReadersCount =
                       Cardinality(DistinctReaders(rows2, bookId.id))]
       IN [status |-> 200, store |-> after, rows |-> rows2,
           events |-> <<Event("readers_count_updated", after, bookId.id)>>]

\* The request is handled at time t; the clock never runs backwards.
AddToHistory(bookId, user, t) ==
  /\ LET res == AddToHistoryResult(books, history, bookId, user, t)
     IN /\ Counted(res.status)
        /\ books' = res.store
        /\ history' = res.rows
        /\ last' = Response("addToHistory", res.status, bookId, res.events)
  /\ now' = t
  /\ UNCHANGED <<revision, nextBookId, rated, listing,
                 collections, nextCollectionId, calls, users>>

\* ------------------------------------------------------ creating books
\* addPersonalBook: new Book({ ..., owner: req.user._id, isPublic }).save()
AddPersonalBook(user, isPublic) ==
  /\ Counted(201)
  /\ nextBookId <= MaxBooks
  /\ books' = books @@ (nextBookId :> NewBook(user, isPublic))
  /\ rated' = rated @@ (nextBookId :> [open |-> TRUE, subs |-> <<>>, repeated |-> FALSE])
  /\ nextBookId' = nextBookId + 1
  /\ last' = Response("addPersonalBook", 201, [ok |-> TRUE, id |-> nextBookId],
                      <<>>)
  /\ UNCHANGED <<revision, history, now, listing,
                 collections, nextCollectionId, calls, users>>

\* addBookFromPublic: the copy takes the source's ratings, numberOfRatings
\* and averageRating; owner is the requester, isPublic false, and every
\* field not passed to the constructor has its schema default.
CopyOfPublicMut(publicBook, user) ==
  [publicBook EXCEPT !.owner = user]
CopyOfPublic(publicBook, user) ==
  [NewBook(user, FALSE) EXCEPT
     !.genre = publicBook.genre,
     !.averageRating = publicBook.averageRating,
     !.numberOfRatings = publicBook.numberOfRatings,
     !.ratings = publicBook.ratings]

AddBookFromPublic(bookId, user) ==
  /\ IF ~bookId.ok
     THEN /\ last' = Response("addBookFromPublic", 500, bookId, <<>>)
          /\ Counted(500)
          /\ UNCHANGED <<books, rated, nextBookId>>
     ELSE IF ~Found(books, bookId) \/ ~books[bookId.id].isPublic
     THEN /\ last' = Response("addBookFromPublic", 404, bookId, <<>>)
          /\ Counted(404)
          /\ UNCHANGED <<books, rated, nextBookId>>
     ELSE /\ nextBookId <= MaxBooks
          /\ Counted(201)
          /\ books' = books @@
               (nextBookId :> CopyOfPublic(books[bookId.id], user))
          /\ rated' = rated @@
               (nextBookId :>
                  [open |-> books[bookId.id].ratings = <<>>, subs |-> <<>>,
                   repeated |-> FALSE])
          /\ nextBookId' = nextBookId + 1
          /\ last' = Response("addBookFromPublic", 201, bookId, <<>>)
  /\ UNCHANGED <<revision, history, now, listing,
                 collections, nextCollectionId, calls, users>>

\* ------------------------------------------------------- getPublicBooks
\* A numeric query parameter: absent, or a string of decimal digits.
Absent == [given |-> FALSE, val |-> 0]
Digits(n) == [given |-> TRUE, val |-> n]

\* const { sortBy, page = 1, limit = 10 } = req.query; parseInt(x, 10)
DefaultPage == 1
DefaultLimit == 10
ParseInt(q, default) == IF q.given THEN q.val ELSE default

\* Book.find({ isPublic: true })
PublicIds(store) == {b \in DOMAIN store : store[b].isPublic}

\* a sorts before b under .sort(sortOptions): { averageRating: -1 } for
\* 'rating', { createdAt: -1 } for 'createdAt' (ids are handed out in creation
\* order), the store's natural order otherwise and between equal keys.
Greater(x, y) == x.num * y.den > y.num * x.den
Before(store, sortBy, a, b) ==
  IF sortBy = "rating"
  THEN \/ Greater(store[a].averageRating, store[b].averageRating)
       \/ /\ ~Greater(store[b].averageRating, store[a].averageRating)
          /\ a < b
  ELSE IF sortBy = "createdAt" THEN a > b ELSE a < b

RECURSIVE Sorted(_, _, _)
Sorted(store, sortBy, ids) ==
  IF ids = {} THEN <<>>
  ELSE LET first == CHOOSE a \in ids :
                      \A b \in ids \ {a} : Before(store, sortBy, a, b)
       IN <<first>> \o Sorted(store, sortBy, ids \ {first})

\* const skip = (pageNum - 1) * limitNum
SkipMut(pageNum, limitNum) == pageNum * limitNum
Skip(pageNum, limitNum) == (pageNum - 1) * limitNum

\* Math.ceil(totalBooks / limitNum), limitNum >= 1
TotalPages(totalBooks, limitNum) == (totalBooks + limitNum - 1) \div limitNum

\* .skip(skip).limit(limitNum), skip >= 0 and limitNum >= 1
SkipLimit(s, skip, limitNum) ==
  IF skip >= Len(s) THEN <<>>
  ELSE SubSeq(s, skip + 1,
              IF skip + limitNum < Len(s) THEN skip + limitNum ELSE Len(s))

\* A query the store refused: the handler's catch answers 500 with the
\* error's message and no list.
QueryFailed(op, user, sortBy, page, limit) ==
  [op |-> op, user |-> user, sortBy |-> sortBy, pageParam |-> page,
   limitParam |-> limit, status |-> 500, books |-> <<>>, page |-> 0,
   pages |-> 0, totalBooks |-> 0]

\* The store rejects a find whose skip is negative ("skip value must be
\* >= 0"); the rejection reaches the handler's catch.
SkipAccepted(skip) == skip >= 0

GetPublicBooksResult(store, sortBy, page, limit) ==
  LET pageNum == ParseInt(page, DefaultPage)
      limitNum == ParseInt(limit, DefaultLimit)
      totalBooks == Cardinality(PublicIds(store))
  IN IF ~SkipAccepted(Skip(pageNum, limitNum))
     THEN QueryFailed("getPublicBooks", NoUser, sortBy, page, limit)
     ELSE [op |-> "getPublicBooks", user |-> NoUser,
           sortBy |-> sortBy, pageParam |-> page, limitParam |-> limit,
           status |-> 200,
           books |-> SkipLimit(Sorted(store, sortBy, PublicIds(store)),
                               Skip(pageNum, limitNum), limitNum),
           page |-> pageNum,
           pages |-> TotalPages(totalBooks, limitNum),
           totalBooks |-> totalBooks]

NoListing ==
  [op |-> "none", user |-> NoUser,
   sortBy |-> "none", pageParam |-> Absent, limitParam |-> Absent,
   status |-> 0, books |-> <<>>, page |-> 0, pages |-> 0, totalBooks |-> 0]

GetPublicBooks(sortBy, page, limit) ==
  /\ listing' = GetPublicBooksResult(books, sortBy, page, limit)
  /\ UNCHANGED <<revision, books, nextBookId, history, now, last, nops, rated,
                 collections, nextCollectionId, calls, users>>

\* ----------------------------------------------------- getPersonalBooks
\* Book.find({ owner: req.user._id }) of a request without filterBy.
PersonalIds(store, user) == {b \in DOMAIN store : store[b].owner = user}

\* sortBy 'newest' is { createdAt: -1 }, 'rating' is { averageRating: -1 },
\* anything else no sort.
PersonalSort(sortBy) ==
  IF sortBy = "newest" THEN "createdAt"
  ELSE IF sortBy = "rating" THEN "rating" ELSE "none"

\* .sort(sortOptions).skip((page - 1) * limit).limit(parseInt(limit)); the
\* response carries books, pages = Math.ceil(totalBooks / limit) and
\* currentPage = parseInt(page), and no totalBooks.
GetPersonalBooksResult(store, user, sortBy, page, limit) ==
  LET pageNum == ParseInt(page, DefaultPage)
      limitNum == ParseInt(limit, DefaultLimit)
      mine == PersonalIds(store, user)
  IN IF ~SkipAccepted(Skip(pageNum, limitNum))
     THEN QueryFailed("getPersonalBooks", user, sortBy, page, limit)
     ELSE [op |-> "getPersonalBooks", user |-> user,
           sortBy |-> sortBy, pageParam |-> page, limitParam |-> limit,
           status |-> 200,
           books |-> SkipLimit(Sorted(store, PersonalSort(sortBy), mine),
                               Skip(pageNum, limitNum), limitNum),
           page |-> pageNum,
           pages |-> TotalPages(Cardinality(mine), limitNum),
           totalBooks |-> 0]

GetPersonalBooks(user, sortBy, page, limit) ==
  /\ listing' = GetPersonalBooksResult(books, user, sortBy, page, limit)
  /\ UNCHANGED <<revision, books, nextBookId, history, now, last, nops, rated,
                 collections, nextCollectionId, calls, users>>

\* ------------------------------------------------------ getUniqueGenres
Chars == {"a", "b", ",", " "}

\* The code point of a character: $sort compares strings by code points.
Code(c) ==
  CASE c = " " -> 32 [] c = "," -> 44 [] c = "a" -> 97 [] c = "b" -> 98

\* { $split: ["$genre", ","] }: the pieces between the commas, empty ones
\* included.
RECURSIVE Split(_)
Split(s) ==
  IF \A i \in 1..Len(s) : s[i] # "," THEN <<s>>
  ELSE LET i == CHOOSE k \in 1..Len(s) :
                  s[k] = "," /\ \A j \in 1..(k - 1) : s[j] # ","
       IN <<SubSeq(s, 1, i - 1)>> \o Split(SubSeq(s, i + 1, Len(s)))

\* { $trim: { input: "$genre" } }: without leading and trailing whitespace.
RECURSIVE TrimLeft(_)
TrimLeft(s) ==
  IF s # <<>> /\ Head(s) = " " THEN TrimLeft(Tail(s)) ELSE s
RECURSIVE TrimRight(_)
TrimRight(s) ==
  IF s # <<>> /\ s[Len(s)] = " " THEN TrimRight(SubSeq(s, 1, Len(s) - 1))
  ELSE s
TrimMut(s) == TrimLeft(s)
Trim(s) == TrimRight(TrimLeft(s))

\* $addFields + $unwind: a string genre is split, a list genre is taken as
\* it is; one document per element.
Unwound(genre) ==
  LET list == IF genre.kind = "string" THEN Split(genre.val) ELSE genre.val
  IN {list[i] : i \in 1..Len(list)}

\* a sorts before b under { $sort: { _id: 1 } }.
RECURSIVE StringLess(_, _)
StringLess(a, b) ==
  IF b = <<>> THEN FALSE
  ELSE IF a = <<>> THEN TRUE
  ELSE IF Head(a) # Head(b) THEN Code(Head(a)) < Code(Head(b))
  ELSE StringLess(Tail(a), Tail(b))

RECURSIVE SortedStrings(_)
SortedStrings(set) ==
  IF set = {} THEN <<>>
  ELSE LET first == CHOOSE a \in set : \A b \in set \ {a} : StringLess(a, b)
       IN <<first>> \o SortedStrings(set \ {first})

\* The pipeline: $match isPublic, split, $unwind, $trim, $match not "",
\* $group, $sort.
GetUniqueGenresResult(store) ==
  LET trimmed == UNION {{Trim(x) : x \in Unwound(store[b].genre)} :
                          b \in PublicIds(store)}
  IN SortedStrings(trimmed \ {<<>>})

GetUniqueGenres ==
  /\ listing' = [op |-> "getUniqueGenres", status |-> 200,
                 genres |-> GetUniqueGenresResult(books)]
  /\ UNCHANGED <<revision, books, nextBookId, history, now, last, nops, rated,
                 collections, nextCollectionId, calls, users>>

\* ------------------------------------------- personal books, collections
\* An id as a request carries it: a string. Two strings that differ in the
\* case of their hexadecimal digits cast to the same ObjectId; toString() of
\* an ObjectId gives the lower-case one.
HexString(id, upper) == [ok |-> TRUE, id |-> id, upper |-> upper]
Malformed == [ok |-> FALSE, id |-> 0, upper |-> FALSE]
ToHexString(id) == HexString(id, FALSE)

\* The answer to a request of an authenticated user.
Answer(op, status, user, collectionId, bookId) ==
  [op |-> op, status |-> status, user |-> user, collection |-> collectionId,
   bookId |-> bookId, events |-> <<>>]

\* f without the document k.
WithoutMut(f, k) == [x \in {} |-> f[x]]
Without(f, k) == [x \in DOMAIN f \ {k} |-> f[x]]

\* book && book.owner.toString() === req.user._id.toString()
OwnsBookMut(store, bookId, user) == Found(store, bookId)
OwnsBook(store, bookId, user) ==
  Found(store, bookId) /\ store[bookId.id].owner = user

\* genre ? genre.split(',').map(g => g.trim()).filter(g => g.length > 0)
\*       : undefined
NoGenre == <<>>
ParseGenre(str) ==
  LET pieces == Split(str)
  IN SelectSeq([i \in 1..Len(pieces) |-> Trim(pieces[i])],
               LAMBDA g : g # <<>>)

\* req.body.isPublic: undefined, true or false.
NoFlag == [given |-> FALSE, val |-> FALSE]
Flag(b) == [given |-> TRUE, val |-> b]

\* updatePersonalBook
UpdatePersonalBookResult(store, bookId, user, isPublic, genre) ==
  IF ~bookId.ok THEN [status |-> 500, store |-> store]
  ELSE IF OwnsBook(store, bookId, user)
  THEN [status |-> 200,
        store |-> [store EXCEPT
          ![bookId.id].genre =
             IF genre # NoGenre THEN GenreList(ParseGenre(genre)) ELSE @,
          ![bookId.id].isPublic =
             IF isPublic.given THEN isPublic.val ELSE @]]
  ELSE [status |-> 404, store |-> store]

UpdatePersonalBook(bookId, user, isPublic, genre) ==
  /\ LET res == UpdatePersonalBookResult(books, bookId, user, isPublic, genre)
     IN /\ Counted(res.status)
        /\ books' = res.store
        /\ last' = Answer("updatePersonalBook", res.status, user, Malformed,
                          bookId)
  /\ UNCHANGED <<revision, nextBookId, history, now, rated, listing,
                 collections, nextCollectionId, calls, users>>

\* deletePersonalBook: book.deleteOne()
DeletePersonalBookResult(store, bookId, user) ==
  IF ~bookId.ok THEN [status |-> 500, store |-> store]
  ELSE IF OwnsBook(store, bookId, user)
  THEN [status |-> 200, store |-> Without(store, bookId.id)]
  ELSE [status |-> 404, store |-> store]

DeletePersonalBook(bookId, user) ==
  /\ LET res == DeletePersonalBookResult(books, bookId, user)
     IN /\ Counted(res.status)
        /\ books' = res.store
        /\ rated' = IF res.status = 200 THEN Without(rated, bookId.id)
                    ELSE rated
        /\ last' = Answer("deletePersonalBook", res.status, user, Malformed,
                          bookId)
  /\ UNCHANGED <<revision, nextBookId, history, now, listing,
                 collections, nextCollectionId, calls, users>>

\* collection && collection.owner.toString() === req.user._id.toString()
OwnsCollectionMut(colls, id, user) == id.ok /\ id.id \in DOMAIN colls
OwnsCollection(colls, id, user) ==
  id.ok /\ id.id \in DOMAIN colls /\ colls[id.id].owner = user

\* addCollection: name is required by the schema; the handler's catch
\* answers 400.
NoName == "undefined"
AddCollection(user, name) ==
  /\ IF name = NoName
     THEN /\ Counted(400)
          /\ last' = Answer("addCollection", 400, user, Malformed, Malformed)
          /\ UNCHANGED <<collections, nextCollectionId>>
     ELSE /\ nextCollectionId <= MaxCollections
          /\ Counted(201)
          /\ collections' = collections @@
               (nextCollectionId :>
                  [name |-> name, owner |-> user, books |-> <<>>])
          /\ nextCollectionId' = nextCollectionId + 1
          /\ last' = Answer("addCollection", 201, user,
                            ToHexString(nextCollectionId), Malformed)
  /\ UNCHANGED <<revision, books, nextBookId, history, now, rated, listing,
                 calls, users>>

\* updateCollection: collection.name = name || collection.name
UpdateCollectionResult(colls, id, user, name) ==
  IF ~id.ok THEN [status |-> 500, colls |-> colls]
  ELSE IF OwnsCollection(colls, id, user)
  THEN [status |-> 200,
        colls |-> [colls EXCEPT ![id.id].name =
                     IF name # NoName THEN name ELSE @]]
  ELSE [status |-> 404, colls |-> colls]

\* deleteCollection
DeleteCollectionResult(colls, id, user) ==
  IF ~id.ok THEN [status |-> 500, colls |-> colls]
  ELSE IF OwnsCollection(colls, id, user)
  THEN [status |-> 200, colls |-> Without(colls, id.id)]
  ELSE [status |-> 404, colls |-> colls]

\* collection.books.includes(bookId): MongooseArray.indexOf compares the
\* string with each element by ==, that is with the element's toString().
Includes(list, str) == \E k \in 1..Len(list) : ToHexString(list[k]) = str

\* addBookToCollection: both documents are fetched before anything is
\* checked; push casts the string to an ObjectId.
AddBookToCollectionResultMut(colls, store, id, bookId, user) ==
  IF ~id.ok \/ ~bookId.ok THEN [status |-> 500, colls |-> colls]
  ELSE IF ~OwnsCollection(colls, id, user) \/ ~Found(store, bookId)
  THEN [status |-> 404, colls |-> colls]
  ELSE [status |-> 200,
        colls |-> [colls EXCEPT ![id.id].books = Append(@, bookId.id)]]
AddBookToCollectionResult(colls, store, id, bookId, user) ==
  IF ~id.ok \/ ~bookId.ok THEN [status |-> 500, colls |-> colls]
  ELSE IF ~OwnsCollection(colls, id, user)
  THEN [status |-> 404, colls |-> colls]
  ELSE IF ~OwnsBook(store, bookId, user)
  THEN [status |-> 404, colls |-> colls]
  ELSE IF Includes(colls[id.id].books, bookId)
  THEN [status |-> 400, colls |-> colls]
  ELSE [status |-> 200,
        colls |-> [colls EXCEPT ![id.id].books = Append(@, bookId.id)]]

\* removeBookFromCollection:
\*   collection.books.filter((id) => id.toString() !== bookId)
RemoveBookFromCollectionResult(colls, id, bookId, user) ==
  IF ~id.ok THEN [status |-> 500, colls |-> colls]
  ELSE IF ~OwnsCollection(colls, id, user)
  THEN [status |-> 404, colls |-> colls]
  ELSE [status |-> 200,
        colls |-> [colls EXCEPT ![id.id].books =
                     SelectSeq(@, LAMBDA b : ToHexString(b) # bookId)]]

\* A mutating collection request: the handler's answer and the collections
\* as it leaves them.
CollectionResult(op, colls, store, id, bookId, user, name) ==
  CASE op = "updateCollection" -> UpdateCollectionResult(colls, id, user, name)
    [] op = "deleteCollection" -> DeleteCollectionResult(colls, id, user)
    [] op = "addBookToCollection" ->
         AddBookToCollectionResult(colls, store, id, bookId, user)
    [] op = "removeBookFromCollection" ->
         RemoveBookFromCollectionResult(colls, id, bookId, user)

CollectionRequest(op, id, bookId, user, name) ==
  /\ LET res == CollectionResult(op, collections, books, id, bookId, user,
                                 name)
     IN /\ Counted(res.status)
        /\ collections' = res.colls
        /\ last' = Answer(op, res.status, user, id, bookId)
  /\ UNCHANGED <<revision, books, nextBookId, history, now, rated, listing,
                 nextCollectionId, calls, users>>

UpdateCollection(id, user, name) ==
  CollectionRequest("updateCollection", id, Malformed, user, name)
DeleteCollection(id, user) ==
  CollectionRequest("deleteCollection", id, Malformed, user, NoName)
AddBookToCollection(id, bookId, user) ==
  CollectionRequest("addBookToCollection", id, bookId, user, NoName)
RemoveBookFromCollection(id, bookId, user) ==
  CollectionRequest("removeBookFromCollection", id, bookId, user, NoName)

\* ------------------------------------------------------------- favorites
\* user.favorites holds book references: push casts the request's string to
\* the id it spells, in either case of its letters.
PushFavorite(favorites, bookId) == Append(favorites, bookId.id)

\* addFavorite: the user and the book are fetched, then the checks. The
\* account of req.user may be gone (user is null, user.favorites throws).
AddFavoriteResult(us, store, user, bookId) ==
  IF user \notin DOMAIN us \/ ~bookId.ok THEN [status |-> 500, us |-> us]
  ELSE IF ~Found(store, bookId) THEN [status |-> 404, us |-> us]
  ELSE IF Includes(us[user].favorites, bookId)
  THEN [status |-> 400, us |-> us]
  ELSE [status |-> 200,
        us |-> [us EXCEPT ![user].favorites = PushFavorite(@, bookId)]]

AddFavorite(user, bookId) ==
  /\ LET res == AddFavoriteResult(users, books, user, bookId)
     IN /\ Counted(res.status)
        /\ users' = res.us
        /\ last' = Answer("addFavorite", res.status, user, Malformed, bookId)
  /\ UNCHANGED <<revision, books, nextBookId, history, now, rated, listing,
                 collections, nextCollectionId, calls>>

\* user.favorites.filter((id) => id.toString() !== bookId)
KeepOthers(favorites, bookId) ==
  SelectSeq(favorites, LAMBDA id : ToHexString(id) # bookId)

\* removeFavorite: the request's string is compared, never cast.
RemoveFavoriteResult(us, user, bookId) ==
  IF user \notin DOMAIN us THEN [status |-> 500, us |-> us]
  ELSE [status |-> 200,
        us |-> [us EXCEPT ![user].favorites = KeepOthers(@, bookId)]]

RemoveFavorite(user, bookId) ==
  /\ LET res == RemoveFavoriteResult(users, user, bookId)
     IN /\ Counted(res.status)
        /\ users' = res.us
        /\ last' = Answer("removeFavorite", res.status, user, Malformed,
                          bookId)
  /\ UNCHANGED <<revision, books, nextBookId, history, now, rated, listing,
                 collections, nextCollectionId, calls>>

\* ------------------------------------------------------------ deleteUser
\* User.findById(req.user.id), then User.deleteOne({ _id: user._id }).
DeleteUserResult(us, user) ==
  IF user \in DOMAIN us
  THEN [status |-> 200, us |-> Without(us, user)]
  ELSE [status |-> 404, us |-> us]

DeleteUser(user) ==
  /\ LET res == DeleteUserResult(users, user)
     IN /\ Counted(res.status)
        /\ users' = res.us
        /\ last' = Answer("deleteUser", res.status, user, Malformed, Malformed)
  /\ UNCHANGED <<revision, books, nextBookId, history, now, rated, listing,
                 collections, nextCollectionId, calls>>

\* ------------------------------------------------------------ getHistory
\* { $sort: { lastReadAt: -1 } }: the store puts rows with equal lastReadAt
\* in an order of its choice, so every descending order is a possible one.
SortedByLastReadAt(rows, ids) ==
  {s \in [1..Cardinality(ids) -> ids] :
     /\ \A j, k \in 1..Cardinality(ids) : j # k => s[j] # s[k]
     /\ \A k \in 1..(Cardinality(ids) - 1) :
          rows[s[k]].lastReadAt >= rows[s[k + 1]].lastReadAt}

\* { $group: { _id: '$book', doc: { $first: '$$ROOT' } } }, $replaceRoot:
\* of the rows of one book, the one that comes first in s.
FirstPerBookMut(rows, s) == {s[k] : k \in 1..Len(s)}
FirstPerBook(rows, s) ==
  {s[k] : k \in {j \in 1..Len(s) :
                   \A m \in 1..(j - 1) : rows[s[m]].book # rows[s[j]].book}}

\* A row as the response carries it.
HistoryDoc(rows, i) ==
  [id |-> i, user |-> rows[i].user, book |-> rows[i].book,
   lastReadAt |-> rows[i].lastReadAt]

\* The pipeline over the rows { $match: { user: req.user._id } } selects,
\* for one order of the first sort and one of the second; Book.populate
\* fills in the books of the rows and writes nothing.
GetHistory(user) ==
  /\ \E s \in SortedByLastReadAt(history,
               {i \in 1..Len(history) : history[i].user = user}) :
       \E r \in SortedByLastReadAt(history, FirstPerBook(history, s)) :
         listing' = [op |-> "getHistory", status |-> 200, user |-> user,
                     rows |-> [k \in 1..Len(r) |-> HistoryDoc(history, r[k])]]
  /\ UNCHANGED <<revision, books, nextBookId, history, now, last, nops, rated,
                 collections, nextCollectionId, calls, users>>

\* ----------------------------------------------------- getTrendingBooks
\* One element of the answer: the selected fields of a public book. The
\* handler of revision "distinctIdentities" replaces the stored reader count
\* by the one it aggregates from the History rows (0 when the book has
\* none); the service of revision "entryCount" returns the stored one.
TrendingItem(rev, store, rows, id) ==
  [id |-> id,
   averageRating |-> store[id].averageRating,
   numberOfRatings |-> store[id].numberOfRatings,
   uniqueReadersCount |->
     IF rev = "distinctIdentities"
     THEN Cardinality(DistinctReaders(rows, id))
     ELSE store[id].uniqueReadersCount]

\* The comparator of the handler's sort, and the service's sort document
\* { averageRating: -1, numberOfRatings: -1, uniqueReadersCount: -1 }:
\* x comes strictly before y.
RanksAboveMut(x, y) ==
  \/ Greater(x.averageRating, y.averageRating)
  \/ /\ x.averageRating = y.averageRating
     /\ x.uniqueReadersCount > y.uniqueReadersCount
RanksAbove(x, y) ==
  \/ Greater(x.averageRating, y.averageRating)
  \/ /\ ~Greater(y.averageRating, x.averageRating)
     /\ \/ x.numberOfRatings > y.numberOfRatings
        \/ /\ x.numberOfRatings = y.numberOfRatings
           /\ x.uniqueReadersCount > y.uniqueReadersCount

\* The sort keeps the store's natural order between items that compare equal.
RECURSIVE SortedItems(_)
SortedItems(items) ==
  IF items = {} THEN <<>>
  ELSE LET first == CHOOSE x \in items :
                      \A y \in items \ {x} :
                        \/ RanksAbove(x, y)
                        \/ ~RanksAbove(y, x) /\ x.id < y.id
       IN <<first>> \o SortedItems(items \ {first})

\* .slice(0, 4), .limit(4)
TrendingLimit == 4

GetTrendingBooksResult(rev, store, rows) ==
  [op |-> "getTrendingBooks", status |-> 200,
   books |-> SkipLimit(SortedItems({TrendingItem(rev, store, rows, id) :
                                      id \in PublicIds(store)}),
                       0, TrendingLimit)]

GetTrendingBooks ==
  /\ listing' = GetTrendingBooksResult(revision, books, history)
  /\ UNCHANGED <<revision, books, nextBookId, history, now, last, nops, rated,
                 collections, nextCollectionId, calls, users>>

\* ---------------------------------------------------------- store errors
\* Every handler awaits the store inside one try block; when the store
\* rejects the call (connection lost, timeout) the handler's catch answers
\* with the error's message and the status written there.
Handlers ==
  {"registerUser", "loginUser", "updateUserProfile", "uploadProfileImage",
   "changePassword", "deleteUser",
   "getFavorites", "addFavorite", "removeFavorite",
   "getCollections", "addCollection", "updateCollection", "deleteCollection",
   "addBookToCollection", "removeBookFromCollection", "addBookFromPublic",
   "getHistory", "addToHistory",
   "getPersonalBooks", "addPersonalBook", "updatePersonalBook",
   "deletePersonalBook", "getTrendingBooks",
   "getPublicBooks", "searchPublicBooks", "rateBook", "getBooksByAuthor",
   "getUniqueGenres"}

\* res.status(...) of each handler's catch block. The rateBook of revision
\* "entryCount" answers by the error's message.
CatchStatus(rev, op, message) ==
  IF op \in {"addToHistory", "addCollection", "addPersonalBook"} THEN 400
  ELSE IF op = "rateBook" /\ rev = "entryCount" THEN ErrorStatus(message)
  ELSE 500

\* A request that passed the handler's own checks and whose store call was
\* rejected: nothing is written, no event is emitted.
StorageError(op) ==
  /\ Counted(CatchStatus(revision, op, "store unavailable"))
  /\ last' = [op |-> op,
              status |-> CatchStatus(revision, op, "store unavailable"),
              bookId |-> [ok |-> FALSE, id |-> 0], events |-> <<>>,
              error |-> "store unavailable"]
  /\ UNCHANGED <<revision, books, nextBookId, history, now, rated, listing,
                 collections, nextCollectionId, calls, users>>

\* ----------------------------------------------------- requests in flight
\* Handlers run to their next await and then yield: between two awaits of one
\* request any other request may run. A call is a request that got past its
\* first await (a request refused before that is answered at once): pc is
\* the await it stands at, local the book document its findById returned,
\* entry the History row its findOne returned (0 for null), count the length
\* of the list its distinct returned.
NoDoc == [owner |-> NoUser]

Call(op, pc, bookId, user, ip, rating, local, status) ==
  [op |-> op, pc |-> pc, bookId |-> bookId, user |-> user, ip |-> ip,
   rating |-> rating, local |-> local, entry |-> 0, count |-> 0,
   status |-> status]

\* The call stands at pc of handler op.
At(c, op, pc) ==
  c \in 1..Len(calls) /\ calls[c].op = op /\ calls[c].pc = pc

\* What is left of a call once its handler needs the loaded document and
\* the query results no more.
Released(call, pc, status) ==
  [call EXCEPT !.pc = pc, !.status = status, !.local = NoDoc, !.entry = 0,
               !.count = 0]

\* The call ends with an error: no event.
Failed(c, status) ==
  /\ calls' = [calls EXCEPT ![c] = Released(@, "done", status)]
  /\ last' = Response(calls[c].op, status, calls[c].bookId, <<>>)

\* rateBook up to its first await: the range check, then Book.findById.
RateLoad(bookId, rating, user, ip) ==
  /\ Len(calls) < MaxCalls
  /\ LET status == IF RatingRejected(rating) THEN 400
                   ELSE IF ~bookId.ok THEN 500
                   ELSE IF ~Found(books, bookId)
                   THEN (IF revision = "entryCount"
                         THEN ErrorStatus("Book not found") ELSE 404)
                   ELSE 0
     IN IF status # 0
        THEN /\ last' = Response("rateBook", status, bookId, <<>>)
             /\ UNCHANGED calls
        ELSE /\ calls' = Append(calls, Call("rateBook", "loaded", bookId, user,
                                            ip, rating, books[bookId.id], 0))
             /\ UNCHANGED last
  /\ UNCHANGED <<revision, books, nextBookId, history, now, nops, rated,
                 listing, collections, nextCollectionId, users>>

\* save() of a document writes the paths the handler modified, not the
\* document: a pushed entry is pushed onto the stored array and increments
\* the version; an entry changed in place is set at its index if the stored
\* version is still the loaded one (VersionError otherwise); an aggregate is
\* set if its value differs from the loaded one.
VersionConflict(stored, local, computed) ==
  /\ Len(computed.ratings) = Len(local.ratings)
  /\ computed.ratings # local.ratings
  /\ stored.version # local.version

SaveRatedMut(stored, local, computed) == computed
SaveRated(stored, local, computed) ==
  LET pushed == Len(computed.ratings) > Len(local.ratings)
      changed == {i \in 1..Len(local.ratings) :
                    computed.ratings[i] # local.ratings[i]}
  IN [stored EXCEPT
        !.ratings =
           IF pushed
           THEN Append(@, computed.ratings[Len(computed.ratings)])
           ELSE [i \in 1..Len(@) |->
                   IF i \in changed THEN computed.ratings[i] ELSE @[i]],
        !.version = IF pushed THEN @ + 1 ELSE @,
        !.numberOfRatings =
           IF computed.numberOfRatings # local.numberOfRatings
           THEN computed.numberOfRatings ELSE @,
        !.averageRating =
           IF computed.averageRating # local.averageRating
           THEN computed.averageRating ELSE @]

\* rateBook from findById to save(): the aggregation on the loaded document,
\* then the write.
RateSave(c) ==
  /\ At(c, "rateBook", "loaded")
  /\ LET call == calls[c]
         id == call.bookId.id
         computed == Rate(revision, call.local, call.rating, call.user,
                          call.ip)
     IN IF \/ ~RatingsValid(computed.ratings)
           \/ VersionConflict(books[id], call.local, computed)
        THEN /\ Failed(c, IF revision = "entryCount"
                          THEN ErrorStatus("save failed") ELSE 500)
             /\ UNCHANGED books
        ELSE /\ books' = [books EXCEPT
                            ![id] = SaveRated(@, call.local, computed)]
             /\ calls' = [calls EXCEPT ![c] = Released(@, "saved", 0)]
             /\ UNCHANGED last
  /\ UNCHANGED <<revision, nextBookId, history, now, nops, rated, listing,
                 collections, nextCollectionId, users>>

\* rateBook from save() to the response: the second findById, io.emit, and
\* res.json.
RateEmit(c) ==
  /\ At(c, "rateBook", "saved")
  /\ calls' = [calls EXCEPT ![c] = Released(@, "done", 200)]
  /\ last' = Response("rateBook", 200, calls[c].bookId,
                      <<Event("rating_updated", books, calls[c].bookId.id)>>)
  /\ UNCHANGED <<revision, books, nextBookId, history, now, nops, rated,
                 listing, collections, nextCollectionId, users>>

\* addToHistory up to its first await: Book.findById.
HistoryLoad(bookId, user) ==
  /\ Len(calls) < MaxCalls
  /\ LET status == IF ~bookId.ok THEN 400
                   ELSE IF ~Found(books, bookId) THEN 404 ELSE 0
     IN IF status # 0
        THEN /\ last' = Response("addToHistory", status, bookId, <<>>)
             /\ UNCHANGED calls
        ELSE /\ calls' = Append(calls, Call("addToHistory", "loaded", bookId,
                                            user, NoIp, Undefined,
                                            books[bookId.id], 0))
             /\ UNCHANGED last
  /\ UNCHANGED <<revision, books, nextBookId, history, now, nops, rated,
                 listing, collections, nextCollectionId, users>>

\* History.findOne({ user, book })
HistoryFind(c) ==
  /\ At(c, "addToHistory", "loaded")
  /\ calls' = [calls EXCEPT
                 ![c].pc = "found",
                 ![c].entry = ExistingEntry(history, calls[c].user,
                                            calls[c].bookId.id)]
  /\ UNCHANGED <<revision, books, nextBookId, history, now, last, nops, rated,
                 listing, collections, nextCollectionId, users>>

\* The History collection takes a new row whatever rows it holds.
InsertRow(rows, row) == Append(rows, row)

\* existingEntry.save() with the new lastReadAt, or newEntry.save().
HistoryWrite(c, t) ==
  /\ At(c, "addToHistory", "found")
  /\ history' =
       IF calls[c].entry # 0
       THEN [history EXCEPT ![calls[c].entry].lastReadAt = t]
       ELSE InsertRow(history, [user |-> calls[c].user,
                                book |-> calls[c].bookId.id,
                                lastReadAt |-> DefaultLastReadAt(t)])
  /\ now' = t
  /\ calls' = [calls EXCEPT ![c].pc = "written"]
  /\ UNCHANGED <<revision, books, nextBookId, last, nops, rated, listing,
                 collections, nextCollectionId, users>>

\* History.distinct('user', { book: bookId })
HistoryCount(c) ==
  /\ At(c, "addToHistory", "written")
  /\ calls' = [calls EXCEPT
                 ![c].pc = "counted",
                 ![c].count = Cardinality(DistinctReaders(history,
                                                          calls[c].bookId.id))]
  /\ UNCHANGED <<revision, books, nextBookId, history, now, last, nops, rated,
                 listing, collections, nextCollectionId, users>>

\* book.uniqueReadersCount = uniqueReaders.length; book.save(): the count is
\* written if it differs from the loaded one.
SaveCount(stored, local, count) ==
  [stored EXCEPT !.uniqueReadersCount =
     IF count # local.uniqueReadersCount THEN count ELSE @]

HistorySave(c) ==
  /\ At(c, "addToHistory", "counted")
  /\ books' = [books EXCEPT ![calls[c].bookId.id] =
                 SaveCount(@, calls[c].local, calls[c].count)]
  /\ calls' = [calls EXCEPT ![c] = Released(@, "saved", 0)]
  /\ UNCHANGED <<revision, nextBookId, history, now, last, nops, rated,
                 listing, collections, nextCollectionId, users>>

\* The second findById, io.emit, and res.status(200).
HistoryEmit(c) ==
  /\ At(c, "addToHistory", "saved")
  /\ calls' = [calls EXCEPT ![c] = Released(@, "done", 200)]
  /\ last' = Response("addToHistory", 200, calls[c].bookId,
                      <<Event("readers_count_updated", books,
                              calls[c].bookId.id)>>)
  /\ UNCHANGED <<revision, books, nextBookId, history, now, nops, rated,
                 listing, collections, nextCollectionId, users>>

\* ------------------------------------------------------- specification
NoRequest ==
  Response("none", 0, [ok |-> FALSE, id |-> 0], <<>>)

Init ==
  /\ revision \in Revisions
  /\ books = <<>>
  /\ nextBookId = 1
  /\ history = <<>>
  /\ now = 0
  /\ last = NoRequest
  /\ nops = 0
  /\ rated = <<>>
  /\ listing = NoListing
  /\ collections = <<>>
  /\ nextCollectionId = 1
  /\ calls = <<>>
  /\ users = Registered

Next ==
  \/ \E bookId \in BookIdInputs, rating \in RatingInputs, who \in Requesters :
       RateBook(bookId, rating, who.user, who.ip)
  \/ \E bookId \in BookIdInputs, user \in Users, t \in now..MaxTime :
       AddToHistory(bookId, user, t)
  \/ \E user \in Uploaders, isPublic \in BOOLEAN :
       AddPersonalBook(user, isPublic)
  \/ \E bookId \in BookIdInputs, user \in Users : AddBookFromPublic(bookId, user)

Spec == Init /\ [][Next]_vars

\* Pagination is checked over catalogues of 0..MaxPublic public books (one
\* private book among them or none) as addPersonalBook creates them, the
\* newest of which user u2 has rated 5 or not.
Catalogue(rev, nPublic, nPrivate, nRated) ==
  [i \in 1..(nPublic + nPrivate) |->
     LET book ==
           NewBook("u1",
                   ~(nPrivate = 1 /\ i = (IF nPublic >= 1 THEN 2 ELSE 1)))
     IN IF nRated = 1 /\ i = nPublic + nPrivate
        THEN Rate(rev, book, Num(5), "u2", "ip1")
        ELSE book]

InitPage ==
  /\ revision \in Revisions
  /\ \E nPublic \in 0..MaxPublic, nPrivate \in 0..1, nRated \in 0..1 :
       /\ books = Catalogue(revision, nPublic, nPrivate, nRated)
       /\ nextBookId = nPublic + nPrivate + 1
       /\ rated = [i \in 1..(nPublic + nPrivate) |->
                     IF nRated = 1 /\ i = nPublic + nPrivate
                     THEN Submitted([open |-> TRUE, subs |-> <<>>,
                                     repeated |-> FALSE], Num(5), "u2", "ip1")
                     ELSE [open |-> TRUE, subs |-> <<>>,
                           repeated |-> FALSE]]
  /\ history = <<>>
  /\ now = 0
  /\ last = NoRequest
  /\ nops = 0
  /\ listing = NoListing
  /\ collections = <<>>
  /\ nextCollectionId = 1
  /\ calls = <<>>
  /\ users = Registered

PageInputs == {Absent} \cup {Digits(n) : n \in -1..3}
LimitInputs == {Absent} \cup {Digits(n) : n \in {1, 2, 3, 10}}

\* A query changes nothing in the store and its answer depends on the store
\* and its own parameters only: a behaviour is one query against a catalogue.
NextPage ==
  /\ listing = NoListing
  /\ \/ \E sortBy \in {"rating", "createdAt", "none"},
           page \in PageInputs, limit \in LimitInputs :
          GetPublicBooks(sortBy, page, limit)
     \/ \E user \in Users, sortBy \in {"rating", "newest", "none"},
           page \in PageInputs, limit \in LimitInputs :
          GetPersonalBooks(user, sortBy, page, limit)

SpecPage == InitPage /\ [][NextPage]_vars

\* Genre extraction is checked over stores of two books, one whose genre is a
\* delimited string and one whose genre is a list of genre strings, each of
\* them public or not.
RECURSIVE Strings(_)
Strings(n) ==
  IF n = 0 THEN {<<>>}
  ELSE LET shorter == Strings(n - 1)
       IN shorter \cup {Append(x, c) : x \in shorter, c \in Chars}

GenreElements ==
  {<<"a">>, <<" ", "a">>, <<"b", " ">>, <<" ">>, <<"a", "b">>}

RECURSIVE Lists(_)
Lists(n) ==
  IF n = 0 THEN {<<>>}
  ELSE LET shorter == Lists(n - 1)
       IN shorter \cup {Append(x, e) : x \in shorter, e \in GenreElements}

InitGenres ==
  /\ revision = "entryCount"
  /\ \E str \in Strings(MaxStr), list \in Lists(MaxList),
        public1 \in BOOLEAN, public2 \in BOOLEAN :
       books = <<[NewBook("u1", public1) EXCEPT !.genre = GenreString(str)],
                 [NewBook("u2", public2) EXCEPT !.genre = GenreList(list)]>>
  /\ nextBookId = 3
  /\ rated = <<[open |-> TRUE, subs |-> <<>>, repeated |-> FALSE],
               [open |-> TRUE, subs |-> <<>>, repeated |-> FALSE]>>
  /\ history = <<>>
  /\ now = 0
  /\ last = NoRequest
  /\ nops = 0
  /\ listing = NoListing
  /\ collections = <<>>
  /\ nextCollectionId = 1
  /\ calls = <<>>
  /\ users = Registered

NextGenres == listing = NoListing /\ GetUniqueGenres

SpecGenres == InitGenres /\ [][NextGenres]_vars

\* Personal books and collections: the requests of two users against a store
\* that starts empty.
HexInputs(n) ==
  {HexString(i, upper) : i \in 1..(n + 1), upper \in BOOLEAN} \cup {Malformed}
\* The id of a collection is only ever cast (Collection.findById), so one
\* spelling of each stands for all.
CollectionIdInputs ==
  {ToHexString(i) : i \in 1..(MaxCollections + 1)} \cup {Malformed}

NextShelf ==
  \/ \E user \in Users, isPublic \in BOOLEAN : AddPersonalBook(user, isPublic)
  \/ \E bookId \in BookIdInputs, user \in Users,
        isPublic \in {NoFlag, Flag(TRUE)},
        genre \in {NoGenre, <<" ", "a", ",">>} :
       UpdatePersonalBook(bookId, user, isPublic, genre)
  \/ \E bookId \in BookIdInputs, user \in Users :
       DeletePersonalBook(bookId, user)
  \/ \E user \in Users, name \in {NoName, "n1"} : AddCollection(user, name)
  \/ \E id \in CollectionIdInputs, user \in Users,
        name \in {NoName, "n2"} :
       UpdateCollection(id, user, name)
  \/ \E id \in CollectionIdInputs, user \in Users :
       DeleteCollection(id, user)
  \/ \E id \in CollectionIdInputs, bookId \in HexInputs(MaxBooks),
        user \in Users : AddBookToCollection(id, bookId, user)
  \/ \E id \in CollectionIdInputs, bookId \in HexInputs(MaxBooks),
        user \in Users : RemoveBookFromCollection(id, bookId, user)

InitShelf == Init /\ revision = "entryCount"

SpecShelf == InitShelf /\ [][NextShelf]_vars

\* Concurrent requests against one public book, unrated or holding the
\* rating 5 of user u1. The requests are ones that get past the first await
\* (Spec covers those that do not): they name the book, with a rating the
\* range check lets through.
RaceRequesters ==
  {[user |-> u, ip |-> "ip1"] : u \in Users}
  \cup {[user |-> NoUser, ip |-> "ip1"]}
RaceBookIds == {[ok |-> TRUE, id |-> 1]}

InitRace ==
  /\ revision \in Revisions
  /\ \E seeded \in BOOLEAN :
       books = <<IF seeded
                 THEN Rate(revision, NewBook("u1", TRUE), Num(5), "u1", "ip1")
                 ELSE NewBook("u1", TRUE)>>
  /\ nextBookId = 2
  /\ rated = <<[open |-> FALSE, subs |-> <<>>, repeated |-> FALSE]>>
  /\ history = <<>>
  /\ now = 0
  /\ last = NoRequest
  /\ nops = 0
  /\ listing = NoListing
  /\ collections = <<>>
  /\ nextCollectionId = 1
  /\ calls = <<>>
  /\ users = Registered

NextRace ==
  \/ \E bookId \in RaceBookIds, rating \in {Num(1), Num(5), Undefined},
        who \in RaceRequesters : RateLoad(bookId, rating, who.user, who.ip)
  \/ \E c \in 1..MaxCalls : RateSave(c)
  \/ \E c \in 1..MaxCalls : RateEmit(c)
  \/ \E bookId \in RaceBookIds, user \in Users : HistoryLoad(bookId, user)
  \/ \E c \in 1..MaxCalls : HistoryFind(c)
  \/ \E c \in 1..MaxCalls, t \in now..MaxTime : HistoryWrite(c, t)
  \/ \E c \in 1..MaxCalls : HistoryCount(c)
  \/ \E c \in 1..MaxCalls : HistorySave(c)
  \/ \E c \in 1..MaxCalls : HistoryEmit(c)

SpecRace == InitRace /\ [][NextRace]_vars

\* Trending is checked over catalogues of up to MaxTrending books of user u1,
\* each one private or public, rated by nobody, by u1 or by u1 and u2, and
\* read by nobody, by u1 or by u1 and u2, as addPersonalBook, rateBook and
\* addToHistory leave them: count is the stored uniqueReadersCount, the
\* number of readers or, after two interleaved addToHistory requests, one
\* less.
MaxTrending == 5

Profiles ==
  {[isPublic |-> FALSE, raters |-> <<Num(5)>>, readers |-> <<"u1", "u2">>,
    count |-> 2],
   [isPublic |-> TRUE, raters |-> <<>>, readers |-> <<>>, count |-> 0],
   [isPublic |-> TRUE, raters |-> <<Num(5)>>, readers |-> <<>>, count |-> 0],
   [isPublic |-> TRUE, raters |-> <<Num(3)>>, readers |-> <<"u1">>,
    count |-> 1],
   [isPublic |-> TRUE, raters |-> <<Num(5), Num(1)>>, readers |-> <<>>,
    count |-> 0],
   [isPublic |-> TRUE, raters |-> <<Num(3)>>, readers |-> <<"u1", "u2">>,
    count |-> 2],
   [isPublic |-> TRUE, raters |-> <<Num(3)>>, readers |-> <<"u1", "u2">>,
    count |-> 1]}

\* The book of a profile: uploaded by u1, rated by u1 and then by u2.
ProfileBook(rev, p) ==
  LET new == NewBook("u1", p.isPublic)
      once == IF Len(p.raters) >= 1
              THEN Rate(rev, new, p.raters[1], "u1", "ip1") ELSE new
      twice == IF Len(p.raters) >= 2
               THEN Rate(rev, once, p.raters[2], "u2", "ip1") ELSE once
  IN [twice EXCEPT !.uniqueReadersCount = p.count]

\* The History rows of the catalogue's books from the i-th on.
RECURSIVE ProfileRows(_, _)
ProfileRows(ps, i) ==
  IF i > Len(ps) THEN <<>>
  ELSE [k \in 1..Len(ps[i].readers) |->
          [user |-> ps[i].readers[k], book |-> i,
           lastReadAt |-> DefaultLastReadAt(0)]]
       \o ProfileRows(ps, i + 1)

InitTrending ==
  /\ revision \in Revisions
  /\ \E n \in 0..MaxTrending :
       \E ps \in [1..n -> Profiles] :
         /\ books = [i \in 1..n |-> ProfileBook(revision, ps[i])]
         /\ history = ProfileRows(ps, 1)
         /\ nextBookId = n + 1
         /\ rated = [i \in 1..n |->
                       [open |-> FALSE, subs |-> <<>>, repeated |-> FALSE]]
  /\ now = 0
  /\ last = NoRequest
  /\ nops = 0
  /\ listing = NoListing
  /\ collections = <<>>
  /\ nextCollectionId = 1
  /\ calls = <<>>
  /\ users = Registered

NextTrending == listing = NoListing /\ GetTrendingBooks

SpecTrending == InitTrending /\ [][NextTrending]_vars

\* Favourites of the users over the books that addPersonalBook stored.
NextFavorites ==
  \/ \E user \in Users, isPublic \in BOOLEAN : AddPersonalBook(user, isPublic)
  \/ \E user \in Users, bookId \in HexInputs(MaxBooks) :
       AddFavorite(user, bookId)
  \/ \E user \in Users, bookId \in HexInputs(MaxBooks) :
       RemoveFavorite(user, bookId)

SpecFavorites == InitShelf /\ [][NextFavorites]_vars

\* The two revisions of rateBook side by side: book 1 is stored by a
\* deployment of revision "distinctIdentities", book 2 is the same book
\* stored by a deployment of revision "entryCount", and every request is
\* sent to both.
RateBoth(rating, user, ip) ==
  /\ LET id == [ok |-> TRUE, id |-> 1]
         one == RateBookResult("distinctIdentities", <<books[1]>>, id,
                               rating, user, ip)
         two == RateBookResult("entryCount", <<books[2]>>, id, rating, user,
                               ip)
     IN /\ Counted(one.status)
        /\ books' = <<one.store[1], two.store[1]>>
        /\ last' = [op |-> "rateBook", status |-> one.status,
                    bookId |-> id, events |-> one.events,
                    statusTwo |-> two.status, user |-> user, ip |-> ip]
  /\ UNCHANGED <<revision, nextBookId, history, now, rated, listing,
                 collections, nextCollectionId, calls, users>>

InitBoth ==
  /\ revision = "distinctIdentities"
  /\ \E isPublic \in BOOLEAN :
       books = <<NewBook("u1", isPublic), NewBook("u1", isPublic)>>
  /\ nextBookId = 3
  /\ rated = <<[open |-> FALSE, subs |-> <<>>, repeated |-> FALSE],
               [open |-> FALSE, subs |-> <<>>, repeated |-> FALSE]>>
  /\ history = <<>>
  /\ now = 0
  /\ last = NoRequest
  /\ nops = 0
  /\ listing = NoListing
  /\ collections = <<>>
  /\ nextCollectionId = 1
  /\ calls = <<>>
  /\ users = Registered

NextBoth ==
  \E rating \in RatingInputs, who \in Requesters :
    RateBoth(rating, who.user, who.ip)

SpecBoth == InitBoth /\ [][NextBoth]_vars

\* Deletions are checked over a store in which records reference each
\* other: book 1 is a public book of u1 and book 2 a private book of u2;
\* collection 1 is u1's and may list book 1, collection 2 is u2's and may
\* list book 2, any further one is u1's; u1 may have read book 1 and have
\* both books among the favourites, u2 may have read book 1 and have it
\* among the favourites.
InitDelete ==
  /\ revision \in Revisions
  /\ \E read1 \in BOOLEAN, read2 \in BOOLEAN, listed \in BOOLEAN,
        liked1 \in BOOLEAN, liked2 \in BOOLEAN :
       /\ history =
            (IF read1 THEN TouchOrInsert(<<>>, "u1", 1, 0) ELSE <<>>)
            \o (IF read2 THEN TouchOrInsert(<<>>, "u2", 1, 0) ELSE <<>>)
       /\ books =
            <<[NewBook("u1", TRUE) EXCEPT
                 !.uniqueReadersCount = Cardinality(DistinctReaders(history, 1))],
              NewBook("u2", FALSE)>>
       /\ collections =
            [c \in 1..MaxCollections |->
               [name |-> "n1",
                owner |-> IF c = 2 THEN "u2" ELSE "u1",
                books |-> IF listed /\ c <= 2 THEN <<c>> ELSE <<>>]]
       /\ users =
            [u \in Users |->
               [favorites |->
                  IF u = "u1" THEN (IF liked1 THEN <<1, 2>> ELSE <<>>)
                  ELSE (IF liked2 THEN <<1>> ELSE <<>>)]]
  /\ nextBookId = 3
  /\ nextCollectionId = MaxCollections + 1
  /\ rated = <<[open |-> TRUE, subs |-> <<>>, repeated |-> FALSE],
               [open |-> TRUE, subs |-> <<>>, repeated |-> FALSE]>>
  /\ now = 0
  /\ last = NoRequest
  /\ nops = 0
  /\ listing = NoListing
  /\ calls = <<>>

NextDelete ==
  \/ \E user \in Users : DeleteUser(user)
  \/ \E bookId \in BookIdInputs, user \in Users :
       DeletePersonalBook(bookId, user)
  \/ \E id \in CollectionIdInputs, user \in Users :
       DeleteCollection(id, user)

SpecDelete == InitDelete /\ [][NextDelete]_vars

\* getHistory is checked over every History collection of up to MaxRows rows
\* of users u1 and u2 and books 1 and 2, read at times 0..MaxTime: the rows
\* addToHistory requests leave, two rows of one user and book (left by
\* interleaved requests) included.
MaxRows == 3

InitHistory ==
  /\ revision \in Revisions
  /\ \E n \in 0..MaxRows :
       history \in [1..n -> [user : Users, book : {1, 2},
                             lastReadAt : 0..MaxTime]]
  /\ books = [b \in 1..2 |->
                [NewBook("u1", TRUE) EXCEPT
                   !.uniqueReadersCount =
                      Cardinality(DistinctReaders(history, b))]]
  /\ nextBookId = 3
  /\ rated = <<[open |-> TRUE, subs |-> <<>>, repeated |-> FALSE],
               [open |-> TRUE, subs |-> <<>>, repeated |-> FALSE]>>
  /\ now = MaxTime
  /\ last = NoRequest
  /\ nops = 0
  /\ listing = NoListing
  /\ collections = <<>>
  /\ nextCollectionId = 1
  /\ calls = <<>>
  /\ users = Registered

NextHistory == listing = NoListing /\ \E user \in Users : GetHistory(user)

SpecHistory == InitHistory /\ [][NextHistory]_vars

\* Requests against a store that may reject any call.
NextFault ==
  \/ \E user \in Uploaders, isPublic \in BOOLEAN :
       AddPersonalBook(user, isPublic)
  \/ \E bookId \in BookIdInputs, user \in Users, t \in now..MaxTime :
       AddToHistory(bookId, user, t)
  \/ \E op \in Handlers : StorageError(op)

SpecFault == Init /\ [][NextFault]_vars

\* ================================================================ claims
Anonymous(r) == r.user = NoUser
Entries(b) == books[b].ratings

\* C1: in every reachable state, whatever rateBook requests were made
\* (authenticated or anonymous, any identity, any rating value), a book's
\* ratings hold at most one entry per authenticated user id and at most one
\* anonymous entry per IP address (per ratedByIp value, the absent one
\* included).
C1_OneRatingPerIdentity ==
  \A b \in DOMAIN books :
    \A i, j \in 1..Len(Entries(b)) :
      i < j =>
        /\ ~(~Anonymous(Entries(b)[i]) /\ Entries(b)[i].user = Entries(b)[j].user)
        /\ ~(Anonymous(Entries(b)[i]) /\ Anonymous(Entries(b)[j])
             /\ Entries(b)[i].ratedByIp = Entries(b)[j].ratedByIp)

\* A book holding entries of two identities, one of which rated again.
C1_Witness ==
  \E b \in DOMAIN books :
    /\ Len(Entries(b)) >= 2
    /\ rated[b].repeated
    /\ last.op = "rateBook" /\ last.status = 200

RECURSIVE SumVals(_)
SumVals(subs) ==
  IF subs = <<>> THEN 0 ELSE Head(subs).val + SumVals(Tail(subs))

\* C2: a book created without ratings that then received N >= 1 successful
\* rateBook submissions from N pairwise distinct identities (user ids, or IPs
\* of requests without a user) with values v1..vN has numberOfRatings = N and
\* averageRating = (v1 + ... + vN) / N.
C2_DistinctRatersCounted ==
  \A b \in DOMAIN books :
    (rated[b].open /\ Len(rated[b].subs) >= 1) =>
      /\ books[b].numberOfRatings = Len(rated[b].subs)
      /\ books[b].averageRating.num * Len(rated[b].subs)
           = SumVals(rated[b].subs) * books[b].averageRating.den
      /\ books[b].averageRating.den > 0

\* Three distinct identities rated one book, not all with the same value.
C2_Witness ==
  \E b \in DOMAIN books :
    /\ rated[b].open
    /\ Len(rated[b].subs) = 3
    /\ rated[b].subs[1].val # rated[b].subs[2].val

\* C3 (as claimed): after every completed rateBook request the rated book's
\* numberOfRatings equals the number of entries of its ratings and its
\* averageRating equals the sum of the entry values divided by that number.
C3_CountIsEntryCount ==
  (last.op = "rateBook" /\ last.status = 200) =>
    LET book == books[last.bookId.id]
    IN /\ book.numberOfRatings = Len(book.ratings)
       /\ book.averageRating.num * Len(book.ratings)
            = SumRatings(book.ratings) * book.averageRating.den

\* The identity of a request has an entry / r is the entry of that identity.
OwnEntry(r, who) ==
  IF who.user # NoUser
  THEN r.user = who.user
  ELSE who.ip # NoIp /\ Anonymous(r) /\ r.ratedByIp = who.ip
HasEntry(ratings, who) ==
  \E i \in 1..Len(ratings) : OwnEntry(ratings[i], who)

\* C4: when an identity that already has a rating entry on a book submits
\* another rating, rateBook overwrites the value of that entry: the number of
\* entries and numberOfRatings are as before the request, every other entry is
\* unchanged, and averageRating is recomputed with the new value.
C4_ReRatingOverwrites ==
  [][\A who \in Requesters, rating \in RatingInputs :
       (/\ last'.op = "rateBook" /\ last'.status = 200
        /\ HasEntry(books[last'.bookId.id].ratings, who)
        /\ RateBook(last'.bookId, rating, who.user, who.ip))
       => LET before == books[last'.bookId.id]
              after == books'[last'.bookId.id]
          IN /\ Len(after.ratings) = Len(before.ratings)
             /\ after.numberOfRatings = before.numberOfRatings
             /\ \A i \in 1..Len(before.ratings) :
                  after.ratings[i] =
                    IF OwnEntry(before.ratings[i], who)
                    THEN [before.ratings[i] EXCEPT !.rating = rating]
                    ELSE before.ratings[i]
             /\ after.averageRating.num * Len(after.ratings)
                  = SumRatings(after.ratings) * after.averageRating.den
    ]_vars

\* An identity rated again a book that holds another identity's entry too,
\* and the value it gave is not the value the other entry holds.
C4_Witness ==
  /\ last.op = "rateBook" /\ last.status = 200
  /\ rated[last.bookId.id].repeated
  /\ Len(books[last.bookId.id].ratings) = 2
  /\ books[last.bookId.id].ratings[1].rating
       # books[last.bookId.id].ratings[2].rating

OutOfRange(r) == r.kind = "number" /\ (r.val < 1 \/ r.val > 5)

\* C5: a rateBook request whose rating value is less than 1 or greater than 5
\* is answered 400 (whether or not the book exists): no book and no history
\* row changes and no event is emitted.
C5_OutOfRangeRejected ==
  [][\A who \in Requesters, rating \in RatingInputs :
       (/\ last'.op = "rateBook"
        /\ OutOfRange(rating)
        /\ RateBook(last'.bookId, rating, who.user, who.ip))
       => /\ last'.status = 400
          /\ books' = books /\ history' = history
          /\ last'.events = <<>>
    ]_vars

\* A rating was rejected with 400 on a request naming no stored book, in a
\* store that holds rated books.
C5_Witness ==
  /\ last.op = "rateBook" /\ last.status = 400
  /\ ~Found(books, last.bookId)
  /\ \E b \in DOMAIN books : books[b].ratings # <<>>

\* C6: in every reachable state every stored rating entry holds a number v
\* with 1 <= v <= 5, whatever rating fields were submitted (missing, null or
\* non-numeric ones included).
C6_StoredRatingsInRange ==
  \A b \in DOMAIN books :
    \A i \in 1..Len(Entries(b)) :
      /\ Entries(b)[i].rating.kind = "number"
      /\ Entries(b)[i].rating.val >= 1
      /\ Entries(b)[i].rating.val <= 5

\* A request passed the range check, reached a stored book that already
\* holds a rating, and was refused by save().
C6_Witness ==
  /\ last.op = "rateBook" /\ last.status = 500
  /\ Found(books, last.bookId)
  /\ books[last.bookId.id].ratings # <<>>

NothingWritten ==
  books' = books /\ history' = history /\ last'.events = <<>>

\* C7 (as claimed): a rateBook or addToHistory request that names a book id
\* (a well-formed one) not present in storage is answered 404, changes no
\* book, creates or updates no history row and emits no event.
C7_UnknownBookIs404 ==
  [][(/\ last'.op \in {"rateBook", "addToHistory"}
      /\ last'.bookId.ok /\ ~Found(books, last'.bookId))
       => (last'.status = 404 /\ NothingWritten)
    ]_vars

\* The rating gets past "rating < 1 || rating > 5": it is no number outside
\* 1..5 and not null (which compares as 0).
PassesRangeCheck(r) == ~OutOfRange(r) /\ r.kind # "null"

\* C7 (amended): a rateBook request whose rating passes the range check, and
\* any addToHistory request, that names a well-formed book id not present in
\* storage is answered 404; and every rateBook or addToHistory request whose
\* book id names no stored book, whatever its status (400 for a rating the
\* range check rejects, 500 or 400 for a malformed id), changes no book,
\* creates or updates no history row and emits no event.
C7_UnknownBookNotFound ==
  [][/\ \A who \in Requesters, rating \in RatingInputs :
          (/\ last'.op = "rateBook"
           /\ last'.bookId.ok /\ ~Found(books, last'.bookId)
           /\ PassesRangeCheck(rating)
           /\ RateBook(last'.bookId, rating, who.user, who.ip))
          => last'.status = 404
     /\ (/\ last'.op = "addToHistory"
         /\ last'.bookId.ok /\ ~Found(books, last'.bookId))
          => last'.status = 404
     /\ (/\ last'.op \in {"rateBook", "addToHistory"}
         /\ ~Found(books, last'.bookId))
          => NothingWritten
    ]_vars

\* rateBook answered 404 for an id that names no book, in a store that holds
\* a book with a rating and a history row.
C7_Witness ==
  /\ last.op = "rateBook" /\ last.status = 404
  /\ last.bookId.ok /\ last.bookId.id \notin DOMAIN books
  /\ history # <<>>
  /\ \E b \in DOMAIN books : books[b].ratings # <<>>

RowsOf(rows, user, id) ==
  {i \in 1..Len(rows) : rows[i].user = user /\ rows[i].book = id}

\* C8: after any sequence of addToHistory requests there is exactly one
\* History row for each (user, book) pair recorded, and a repeated
\* addToHistory by the same user for the same book sets that row's lastReadAt
\* to the time of the later request without adding a row (and leaves every
\* other row as it was).
C8_OneRowPerUserAndBook ==
  [][\A user \in Users :
       (/\ last'.op = "addToHistory" /\ last'.status = 200
        /\ AddToHistory(last'.bookId, user, now'))
       => /\ \A u \in Users, b \in DOMAIN books :
               Cardinality(RowsOf(history', u, b)) <= 1
          /\ Cardinality(RowsOf(history', user, last'.bookId.id)) = 1
          /\ RowsOf(history, user, last'.bookId.id) # {}
               => /\ Len(history') = Len(history)
                  /\ \A i \in 1..Len(history) :
                       history'[i] =
                         IF i \in RowsOf(history, user, last'.bookId.id)
                         THEN [history[i] EXCEPT !.lastReadAt = now']
                         ELSE history[i]
          /\ RowsOf(history, user, last'.bookId.id) = {}
               => /\ Len(history') = Len(history) + 1
                  /\ SubSeq(history', 1, Len(history)) = history
    ]_vars

\* The older of two rows carries the later lastReadAt: its user came back to
\* the book after the other row was written.
C8_Witness ==
  /\ last.op = "addToHistory" /\ last.status = 200
  /\ Len(history) = 2
  /\ history[1].user # history[2].user
  /\ history[1].lastReadAt > history[2].lastReadAt

\* C9: after every completed addToHistory request the target book's
\* uniqueReadersCount equals the number of distinct user ids among the
\* History rows that reference the book.
C9_ReadersCountIsDistinctUsers ==
  (last.op = "addToHistory" /\ last.status = 200) =>
    books[last.bookId.id].uniqueReadersCount =
      Cardinality({history[i].user :
                     i \in {j \in 1..Len(history) :
                              history[j].book = last.bookId.id}})

\* A book two users have read, after its first reader came back: two rows,
\* count 2.
C9_Witness ==
  /\ last.op = "addToHistory" /\ last.status = 200
  /\ books[last.bookId.id].uniqueReadersCount = 2
  /\ Len(history) = 2
  /\ history[1].book = last.bookId.id /\ history[2].book = last.bookId.id
  /\ history[1].lastReadAt > history[2].lastReadAt

PublicBooks == {b \in DOMAIN books : books[b].isPublic}

\* C10: getPublicBooks with page p >= 1 and page size L >= 1 over T public
\* books returns exactly the items at positions (p-1)*L+1 .. min(p*L, T) of
\* the sorted list of the public books, reports totalBooks = T and
\* pages = ceil(T/L); page 2 with L = 10 over 15 public books returns 5 items
\* and pages = 2.
C10_PageIsSliceOfSortedPublicBooks ==
  (/\ listing.op = "getPublicBooks"
   /\ listing.pageParam.given /\ listing.limitParam.given
   /\ listing.pageParam.val >= 1 /\ listing.limitParam.val >= 1)
  => LET p == listing.pageParam.val
         L == listing.limitParam.val
         T == Cardinality(PublicBooks)
         list == Sorted(books, listing.sortBy, PublicBooks)
         upTo == IF p * L < T THEN p * L ELSE T
         items == listing.books
     IN /\ listing.status = 200
        /\ listing.totalBooks = T
        /\ listing.pages * L >= T /\ (listing.pages - 1) * L < T
        /\ Len(items) = (IF upTo > (p - 1) * L THEN upTo - (p - 1) * L ELSE 0)
        /\ \A i \in 1..Len(items) : items[i] = list[(p - 1) * L + i]
        /\ (p = 2 /\ L = 10 /\ T = 15) => (Len(items) = 5 /\ listing.pages = 2)

\* Page 2 of 15 public books (and a private one), ten to a page: the last 5,
\* sorted by rating, so that the rated book leads page 1 and is not here.
C10_Witness ==
  /\ Cardinality(PublicBooks) = 15
  /\ Cardinality(DOMAIN books) = 16
  /\ listing.op = "getPublicBooks"
  /\ listing.status = 200 /\ listing.sortBy = "rating"
  /\ listing.pageParam = Digits(2) /\ listing.limitParam = Digits(10)
  /\ listing.page = 2 /\ listing.pages = 2 /\ listing.totalBooks = 15
  /\ Len(listing.books) = 5
  /\ listing.books[5] = 15

\* The books a listing request asks about: the public ones, or the
\* requester's own.
Listed ==
  IF listing.op = "getPublicBooks" THEN PublicBooks
  ELSE PersonalIds(books, listing.user)

\* C11 (as claimed): for every requested page number outside 1..pages (beyond
\* the last page, zero or negative) getPublicBooks and getPersonalBooks answer
\* successfully with an empty list of books.
C11_OutOfRangePageIsEmpty ==
  (/\ listing.op \in {"getPublicBooks", "getPersonalBooks"}
   /\ listing.pageParam.given)
  => LET L == IF listing.limitParam.given THEN listing.limitParam.val
              ELSE DefaultLimit
         T == Cardinality(Listed)
         p == listing.pageParam.val
     IN (p < 1 \/ (p - 1) * L >= T)
          => (listing.status = 200 /\ listing.books = <<>>)

\* g is what is left of x without its leading and trailing spaces.
IsTrimmed(g, x) ==
  \E a, b \in 1..Len(x) :
    /\ a <= b /\ g = SubSeq(x, a, b)
    /\ x[a] # " " /\ x[b] # " "
    /\ \A k \in 1..Len(x) : (k < a \/ k > b) => x[k] = " "

\* s[i..j] is a maximal stretch of s without a comma.
IsPiece(s, i, j) ==
  /\ i <= j
  /\ \A k \in i..j : s[k] # ","
  /\ i = 1 \/ s[i - 1] = ","
  /\ j = Len(s) \/ s[j + 1] = ","

\* g is a genre of the book: a trimmed, non-empty piece of its delimited
\* string, or a trimmed, non-empty element of its list.
IsGenreOf(g, book) ==
  IF book.genre.kind = "string"
  THEN \E i, j \in 1..Len(book.genre.val) :
         /\ IsPiece(book.genre.val, i, j)
         /\ IsTrimmed(g, SubSeq(book.genre.val, i, j))
  ELSE \E k \in 1..Len(book.genre.val) : IsTrimmed(g, book.genre.val[k])

\* Every stretch of characters of a stored genre.
Substrings(genre) ==
  IF genre.kind = "string"
  THEN {SubSeq(genre.val, a, b) : a, b \in 1..Len(genre.val)}
  ELSE UNION {{SubSeq(genre.val[k], a, b) : a, b \in 1..Len(genre.val[k])} :
                k \in 1..Len(genre.val)}

\* C12: getUniqueGenres returns the distinct genres of the public books
\* (pieces of a delimited string or elements of a list, trimmed), none of
\* them empty, none twice, in ascending order; a genre that only non-public
\* books have is not returned.
C12_GenresDistinctTrimmedSorted ==
  listing.op = "getUniqueGenres" =>
    LET genres == listing.genres
    IN /\ listing.status = 200
       /\ \A i \in 1..Len(genres) :
            /\ genres[i] # <<>>
            /\ \E b \in PublicBooks : IsGenreOf(genres[i], books[b])
       /\ \A i, j \in 1..Len(genres) :
            i < j => StringLess(genres[i], genres[j])
       /\ \A b \in PublicBooks : \A g \in Substrings(books[b].genre) :
            IsGenreOf(g, books[b]) => \E i \in 1..Len(genres) : genres[i] = g

\* Both forms at once, both books public: the string "b, " next to the list
\* <<" a", "b ">> gives <<"a", "b">>.
C12_Witness ==
  /\ listing.op = "getUniqueGenres"
  /\ listing.genres = << <<"a">>, <<"b">> >>
  /\ books[1].isPublic /\ books[2].isPublic
  /\ books[1].genre = GenreString(<<"b", ",", " ">>)
  /\ books[2].genre = GenreList(<< <<" ", "a">>, <<"b", " ">> >>)

\* No id occurs twice in the list.
NoRepeats(list) ==
  \A i, j \in 1..Len(list) : i < j => list[i] # list[j]

\* The request that was just answered went to a stored collection of its
\* sender, and the book it names is in storage and listed by the collection.
AddsMember ==
  /\ last'.op = "addBookToCollection"
  /\ OwnsCollection(collections, last'.collection, last'.user)
  /\ Found(books, last'.bookId)
  /\ \E k \in 1..Len(collections[last'.collection.id].books) :
       collections[last'.collection.id].books[k] = last'.bookId.id

\* C13 (as claimed): addBookToCollection by the collection's owner for a book
\* that is already a member is answered 400 and leaves the collection's book
\* list as it was, so no collection ever lists the same book twice.
C13_MemberAddedOnce ==
  [][/\ AddsMember => (last'.status = 400 /\ collections' = collections)
     /\ \A c \in DOMAIN collections' : NoRepeats(collections'[c].books)
    ]_vars

\* The request that was just answered named a stored book that its sender
\* does not own.
OnBookOfAnother ==
  /\ last'.op \in {"updatePersonalBook", "deletePersonalBook"}
  /\ Found(books, last'.bookId)
  /\ books[last'.bookId.id].owner # last'.user

\* C14: deletePersonalBook and updatePersonalBook issued by a user who is not
\* the book's owner are answered 404 and leave the book in storage with every
\* field unchanged.
C14_NonOwnerCannotChangeBook ==
  [][OnBookOfAnother =>
       /\ last'.status = 404
       /\ last'.bookId.id \in DOMAIN books'
       /\ books'[last'.bookId.id] = books[last'.bookId.id]
       /\ books' = books
    ]_vars

\* A user asked to delete a public book of another user that a collection
\* lists, and got 404.
C14_Witness ==
  /\ last.op = "deletePersonalBook" /\ last.status = 404
  /\ Found(books, last.bookId)
  /\ books[last.bookId.id].owner # last.user
  /\ books[last.bookId.id].isPublic
  /\ \E c \in DOMAIN collections : collections[c].books # <<>>

MutatingCollectionOps ==
  {"updateCollection", "deleteCollection", "addBookToCollection",
   "removeBookFromCollection"}

\* The request that was just answered named a stored collection that its
\* sender does not own.
OnCollectionOfAnother ==
  /\ last'.op \in MutatingCollectionOps
  /\ last'.collection.ok /\ last'.collection.id \in DOMAIN collections
  /\ collections[last'.collection.id].owner # last'.user

SavesRating(c) ==
  /\ At(c, "rateBook", "loaded")
  /\ c \in 1..Len(calls') /\ calls'[c].pc = "saved"

\* What call c computed from the document it loaded.
Computed(c) ==
  Rate(revision, calls[c].local, calls[c].rating, calls[c].user, calls[c].ip)

\* C16: two rateBook requests for one book whose read-modify-write steps
\* interleave are not serialized. A save that adds an entry after another
\* request changed the stored book keeps the entries stored meanwhile and
\* appends its own, while the numberOfRatings and averageRating it writes
\* are the ones it computed from the copy it loaded, which the other
\* request's submission is not part of: the last write wins.
C16_LastWriteWins ==
  [][\A c \in 1..MaxCalls :
       (/\ SavesRating(c)
        /\ books[calls[c].bookId.id] # calls[c].local
        /\ Len(Computed(c).ratings) > Len(calls[c].local.ratings))
       => LET id == calls[c].bookId.id
              local == calls[c].local
              own == Computed(c).ratings[Len(Computed(c).ratings)]
          IN /\ books'[id].ratings = Append(books[id].ratings, own)
             /\ books'[id].numberOfRatings =
                  IF Computed(c).numberOfRatings # local.numberOfRatings
                  THEN Computed(c).numberOfRatings
                  ELSE books[id].numberOfRatings
             /\ books'[id].averageRating =
                  IF Computed(c).averageRating # local.averageRating
                  THEN Computed(c).averageRating
                  ELSE books[id].averageRating
    ]_vars

\* Users u1 and u2 both rated the unrated book and both were answered 200:
\* the book holds the two entries, and a numberOfRatings of 1 with the
\* average of one submission alone.
C16_Witness ==
  /\ \E c, d \in 1..Len(calls) :
       /\ calls[c].op = "rateBook" /\ calls[d].op = "rateBook"
       /\ calls[c].pc = "done" /\ calls[d].pc = "done"
       /\ calls[c].status = 200 /\ calls[d].status = 200
       /\ calls[c].user = "u1" /\ calls[d].user = "u2"
       /\ calls[c].bookId = calls[d].bookId
       /\ calls[c].rating = Num(1) /\ calls[d].rating = Num(5)
  /\ \A c \in 1..Len(calls) : calls[c].pc = "done"
  /\ Len(books[1].ratings) = 2
  /\ books[1].numberOfRatings = 1
  /\ books[1].averageRating \in {Quotient(1, 1), Quotient(5, 1)}

\* C17: at most one History row exists per (user, book) pair in every
\* reachable state, including when two addToHistory requests by the same
\* user for the same book interleave between the lookup of the existing row
\* and the insertion of a new one.
C17_OneRowPerUserAndBook ==
  \A i, j \in 1..Len(history) :
    (history[i].user = history[j].user /\ history[i].book = history[j].book)
    => i = j

\* C18: whenever no addToHistory request is in flight, a book's persisted
\* uniqueReadersCount equals the number of distinct users in the History
\* rows for that book, including after addToHistory requests by different
\* users for the same book were interleaved.
C18_CountIsDistinctReaders ==
  (\A c \in 1..Len(calls) :
     calls[c].op = "addToHistory" => calls[c].pc = "done")
  => \A b \in DOMAIN books :
       books[b].uniqueReadersCount = Cardinality(DistinctReaders(history, b))

\* The stored book as getTrendingBooks ranks it.
Ranked(b) == TrendingItem(revision, books, history, b)

\* C19: getTrendingBooks returns at most 4 books, all of them public, ordered
\* by averageRating descending, ties broken by numberOfRatings descending,
\* then by uniqueReadersCount descending, and no public book left out ranks
\* strictly above a returned book in that order.
C19_TrendingIsTopFour ==
  listing.op = "getTrendingBooks" =>
    LET top == listing.books
    IN /\ listing.status = 200
       /\ Len(top) <= 4
       /\ \A k \in 1..Len(top) :
            /\ top[k].id \in DOMAIN books
            /\ books[top[k].id].isPublic
            /\ top[k] = Ranked(top[k].id)
       /\ \A j, k \in 1..Len(top) : j < k => top[j].id # top[k].id
       /\ \A k \in 1..(Len(top) - 1) :
            \/ Greater(top[k].averageRating, top[k + 1].averageRating)
            \/ /\ top[k].averageRating = top[k + 1].averageRating
               /\ top[k].numberOfRatings > top[k + 1].numberOfRatings
            \/ /\ top[k].averageRating = top[k + 1].averageRating
               /\ top[k].numberOfRatings = top[k + 1].numberOfRatings
               /\ top[k].uniqueReadersCount >= top[k + 1].uniqueReadersCount
       /\ \A b \in DOMAIN books :
            (books[b].isPublic /\ \A k \in 1..Len(top) : top[k].id # b)
            => /\ Len(top) = 4
               /\ \A k \in 1..Len(top) :
                    LET x == Ranked(b)
                    IN ~(\/ Greater(x.averageRating, top[k].averageRating)
                         \/ /\ x.averageRating = top[k].averageRating
                            /\ x.numberOfRatings > top[k].numberOfRatings
                         \/ /\ x.averageRating = top[k].averageRating
                            /\ x.numberOfRatings = top[k].numberOfRatings
                            /\ x.uniqueReadersCount
                                 > top[k].uniqueReadersCount)

\* Four of five public books were returned and the fifth was left out; of two
\* returned books with equal averages the one stored first comes second, for
\* its smaller number of ratings; and two with equal averages and numbers of
\* ratings are in the order of their reader counts.
C19_Witness ==
  /\ listing.op = "getTrendingBooks"
  /\ Len(listing.books) = 4
  /\ Cardinality(PublicIds(books)) = 5
  /\ \E k \in 1..3 :
       /\ listing.books[k].averageRating = listing.books[k + 1].averageRating
       /\ listing.books[k].numberOfRatings
            > listing.books[k + 1].numberOfRatings
       /\ listing.books[k].id > listing.books[k + 1].id
  /\ \E k \in 1..3 :
       /\ listing.books[k].averageRating = listing.books[k + 1].averageRating
       /\ listing.books[k].numberOfRatings
            = listing.books[k + 1].numberOfRatings
       /\ listing.books[k].uniqueReadersCount
            > listing.books[k + 1].uniqueReadersCount

\* The name of the event each handler emits.
EventName(op) ==
  IF op = "rateBook" THEN "rating_updated" ELSE "readers_count_updated"

\* C20: every rateBook request that succeeds emits exactly one rating_updated
\* event, and every addToHistory request that succeeds emits exactly one
\* readers_count_updated event; the event carries the snapshot of the book as
\* stored after the request's write, and a request that fails (400, 404 or
\* 500) emits no event.
C20_OneEventPerSuccess ==
  last.op \in {"rateBook", "addToHistory"} =>
    IF last.status = 200
    THEN /\ Found(books, last.bookId)
         /\ last.events = <<[name |-> EventName(last.op),
                             snapshot |-> Snapshot(books, last.bookId.id)]>>
    ELSE /\ last.status \in {400, 404, 500}
         /\ last.events = <<>>

\* A second user read a book that one user had rated: the event carries the
\* reader count 2 the request just stored, next to the 1 rating.
C20_Witness ==
  /\ last.op = "addToHistory" /\ last.status = 200
  /\ Len(last.events) = 1
  /\ last.events[1].name = "readers_count_updated"
  /\ last.events[1].snapshot.uniqueReadersCount = 2
  /\ last.events[1].snapshot.numberOfRatings = 1

\* C21: in every request handler, a failure that is neither a validation
\* error, a not-found condition nor an authentication failure (a storage
\* error or an unexpected exception) is answered with status 500 carrying
\* the error message.
C21_StorageErrorIs500 ==
  "error" \in DOMAIN last => last.status = 500

\* The step answers a rateBook request.
AnswersRateBook == nops' # nops /\ last'.op = "rateBook"

\* C22: only public books are eligible for rating: a rateBook request that
\* targets a book whose isPublic flag is false does not change that book's
\* ratings, numberOfRatings or averageRating.
C22_PrivateBookNotRated ==
  [][(/\ AnswersRateBook
      /\ Found(books, last'.bookId)
      /\ ~books[last'.bookId.id].isPublic)
     => LET id == last'.bookId.id
        IN /\ books'[id].ratings = books[id].ratings
           /\ books'[id].numberOfRatings = books[id].numberOfRatings
           /\ books'[id].averageRating = books[id].averageRating
    ]_vars

\* The request that was just answered named a stored book that is among its
\* sender's favourites.
AddsFavorite ==
  /\ last'.op = "addFavorite"
  /\ last'.user \in DOMAIN users
  /\ Found(books, last'.bookId)
  /\ \E k \in 1..Len(users[last'.user].favorites) :
       users[last'.user].favorites[k] = last'.bookId.id

\* C23: addFavorite for a book that is already in the user's favorites is
\* answered with status 400 and leaves the favorites list unchanged, so after
\* any sequence of sequential addFavorite/removeFavorite requests a user's
\* favorites list contains no book twice.
C23_FavoriteAddedOnce ==
  [][/\ AddsFavorite => (last'.status = 400 /\ users' = users)
     /\ \A u \in DOMAIN users' : NoRepeats(users'[u].favorites)
    ]_vars

\* C24: the two revisions of the rating aggregator agree: for every sequence
\* of rateBook submissions (authenticated and anonymous identities, any IP
\* value including an absent one) applied to the same initial book, the two
\* revisions produce the same ratings collection, the same numberOfRatings
\* and the same averageRating after every step.
C24_RevisionsAgree ==
  /\ books[1].ratings = books[2].ratings
  /\ books[1].numberOfRatings = books[2].numberOfRatings
  /\ books[1].averageRating = books[2].averageRating

\* C25: identity matching in rateBook never crosses between authenticated
\* and anonymous entries: a request with an authenticated user only ever
\* overwrites an entry whose user field equals that user id, and a request
\* without a user only ever overwrites an entry that has no user field and
\* whose ratedByIp equals the request IP; an entry belonging to a different
\* identity is never modified.
C25_OverwritesOwnEntryOnly ==
  [][\A b \in DOMAIN books :
       \A i \in 1..Len(books[b].ratings) :
         books'[b].ratings[i] # books[b].ratings[i]
         => IF last'.user # NoUser
            THEN books[b].ratings[i].user = last'.user
            ELSE /\ books[b].ratings[i].user = NoUser
                 /\ books[b].ratings[i].ratedByIp = last'.ip
    ]_vars

\* The documents of f other than k are in g as they are in f.
OthersKept(f, g, k) ==
  \A x \in DOMAIN f \ {k} : x \in DOMAIN g /\ g[x] = f[x]

\* C26: deletion does not cascade: deleteUser removes only the user record,
\* deletePersonalBook removes only the book record and deleteCollection
\* removes only the collection record; all other users, books, collections'
\* book lists, users' favorites lists and History rows, including those that
\* reference the deleted record, are left unchanged.
C26_DeletionDoesNotCascade ==
  [][nops' # nops =>
       /\ last'.op = "deleteUser" =>
            /\ OthersKept(users, users', last'.user)
            /\ books' = books /\ collections' = collections
            /\ history' = history
            /\ last'.status = 200 => last'.user \notin DOMAIN users'
       /\ last'.op = "deletePersonalBook" =>
            /\ OthersKept(books, books', last'.bookId.id)
            /\ users' = users /\ collections' = collections
            /\ history' = history
            /\ last'.status = 200 => last'.bookId.id \notin DOMAIN books'
       /\ last'.op = "deleteCollection" =>
            /\ OthersKept(collections, collections', last'.collection.id)
            /\ users' = users /\ books' = books /\ history' = history
            /\ last'.status = 200 =>
                 last'.collection.id \notin DOMAIN collections'
    ]_vars

\* Book 1 was deleted by its owner: collection 1 still lists it, both users
\* still have it among their favourites and both History rows still name it.
C26_Witness ==
  /\ last.op = "deletePersonalBook" /\ last.status = 200
  /\ last.bookId.id = 1
  /\ 1 \notin DOMAIN books /\ 2 \in DOMAIN books
  /\ 1 \in DOMAIN collections /\ collections[1].books = <<1>>
  /\ \A u \in Users :
       /\ u \in DOMAIN users
       /\ \E k \in 1..Len(users[u].favorites) : users[u].favorites[k] = 1
  /\ Len(history) = 2
  /\ \A i \in 1..Len(history) : history[i].book = 1

\* The step answers a request with 200.
Succeeds(op) == nops' # nops /\ last'.op = op /\ last'.status = 200

\* Every book other than id is stored as before, and no book was added or
\* removed.
OtherBooksKept(id) ==
  /\ DOMAIN books' = DOMAIN books
  /\ \A b \in DOMAIN books \ {id} : books'[b] = books[b]

\* At most one History row was written, one of book id: a row that was
\* there, for the same user and book, or a new last row for a pair that had
\* none.
OneRowWritten(id) ==
  LET changed == {i \in 1..Len(history) : history'[i] # history[i]}
      added == Len(history') - Len(history)
  IN /\ Len(history') >= Len(history)
     /\ Cardinality(changed) + added <= 1
     /\ \A i \in changed :
          /\ history[i].book = id /\ history'[i].book = id
          /\ history'[i].user = history[i].user
     /\ added = 1 =>
          /\ history'[Len(history')].book = id
          /\ \A i \in 1..Len(history) :
               ~(/\ history[i].book = id
                 /\ history[i].user = history'[Len(history')].user)

\* What a successful addToHistory changes.
HistoryFrame ==
  Succeeds("addToHistory") =>
    LET id == last'.bookId.id
    IN /\ OtherBooksKept(id)
       /\ books'[id] = [books[id] EXCEPT
                          !.uniqueReadersCount = books'[id].uniqueReadersCount]
       /\ OneRowWritten(id)

ListedBooksAreOwn(colls, store) ==
  \A c \in DOMAIN colls :
    \A k \in 1..Len(colls[c].books) :
      colls[c].books[k] \in DOMAIN store
      => store[colls[c].books[k]].owner = colls[c].owner

\* C29: in every reachable state, every book listed in a collection that
\* still exists in storage is owned by the owner of that collection:
\* addBookToCollection rejects with 404 a book owned by another user, and no
\* operation changes the owner of a book or of a collection.
C29_ListedBooksBelongToOwner ==
  [][/\ ListedBooksAreOwn(collections', books')
     /\ \A b \in DOMAIN books \cap DOMAIN books' :
          books'[b].owner = books[b].owner
     /\ \A c \in DOMAIN collections \cap DOMAIN collections' :
          collections'[c].owner = collections[c].owner
     /\ (/\ nops' # nops /\ last'.op = "addBookToCollection"
         /\ Found(books, last'.bookId)
         /\ books[last'.bookId.id].owner # last'.user)
        => /\ collections' = collections
           /\ last'.collection.ok => last'.status = 404
    ]_vars

\* A user asked to put another user's book into a collection of their own,
\* and got 404.
C29_Witness ==
  /\ last.op = "addBookToCollection" /\ last.status = 404
  /\ OwnsCollection(collections, last.collection, last.user)
  /\ Found(books, last.bookId)
  /\ books[last.bookId.id].owner # last.user

\* C30: getHistory returns only History rows of the requesting user, at most
\* one row per book (the one with the greatest lastReadAt for that book),
\* ordered by lastReadAt descending, and it modifies no stored record.
C30_HistoryIsLatestPerBook ==
  [][listing'.op = "getHistory" =>
       LET out == listing'.rows
       IN /\ listing'.status = 200
          /\ \A k \in 1..Len(out) :
               /\ out[k].id \in 1..Len(history)
               /\ out[k] = HistoryDoc(history, out[k].id)
               /\ out[k].user = listing'.user
               /\ \A i \in 1..Len(history) :
                    (history[i].user = listing'.user
                     /\ history[i].book = out[k].book)
                    => history[i].lastReadAt <= out[k].lastReadAt
          /\ \A j, k \in 1..Len(out) : j < k => out[j].book # out[k].book
          /\ \A k \in 1..(Len(out) - 1) :
               out[k].lastReadAt >= out[k + 1].lastReadAt
          /\ history' = history /\ books' = books /\ users' = users
          /\ collections' = collections
    ]_vars

\* The user has two rows of one book, read at different times, and another
\* user has a row too: the answer holds one row, the later of the two.
C30_Witness ==
  /\ listing.op = "getHistory"
  /\ Len(listing.rows) = 1
  /\ \E i, j, k \in 1..Len(history) :
       /\ history[i].user = listing.user /\ history[j].user = listing.user
       /\ history[i].book = history[j].book
       /\ history[i].lastReadAt < history[j].lastReadAt
       /\ listing.rows[1].id = j
       /\ history[k].user # listing.user

====
